---- MODULE Spec2Model ----
(***************************************************************************)
(* Model of the messaging runtime of the Deribit client: the bounded SPSC  *)
(* ring buffer (spsc_queue.h), the token bucket (rate_limiter.h), the      *)
(* dispatcher tables and dispatch algorithm (dispatcher.h) and the client  *)
(* facade's worker threads (deribit_client.h, receiver.h).                 *)
(*                                                                         *)
(* Threads are modelled by program counters; every atomic load or store of *)
(* the C++ code is one step, so that every interleaving of the threads is  *)
(* a behaviour of the model.                                               *)
(***************************************************************************)
EXTENDS Integers, Sequences, FiniteSets, TLC

(***************************************************************************)
(* Bounds of the model.                                                    *)
(***************************************************************************)
\* log2 of the ring capacity N (the code instantiates N = 4096 and N = 1024)
LogN == 2
\* number of push calls the producer makes
MaxPush == 5
\* number of frames the transport delivers to the Receiver
MaxFrames == 2

\* register_rpc calls made
MaxReg == 2

\* register_subscription calls made
MaxSubReg == 2

\* the clock stops at this time (milliseconds)
MaxTime == 1500

\* allow_request calls made
MaxAllow == 25

\* the clock of the burst of facade calls stops at this time (milliseconds)
MaxGateTime == 150

\* send_rpc / subscribe calls made while the Sender runs
MaxCalls == 2

\* SPSCQueue<T, N>: N is a power of two (static_assert)
N == 2 ^ LogN

\* the threads that call push on the inbound queue, and the one that pops
Receiver == "receiver"
App == "app"
Pushers == {Receiver, App}

VARIABLES
    \* ---- SPSCQueue (the inbound queue) ----
    buffer,     \* std::array<T, N> buffer
    head,       \* std::atomic<size_t> head
    tail,       \* std::atomic<size_t> tail
    p_pc,       \* per pushing thread: position inside push()
    p_h,        \* per pushing thread: local h
    p_v,        \* per pushing thread: argument v
    push_ret,   \* per pushing thread: result of its last push call
    c_pc,       \* consumer: position inside pop() / wait_and_pop()
    c_mode,     \* consumer: which call the running pop() belongs to
    c_t,        \* consumer: local t
    c_v,        \* consumer: local v
    pop_ret,    \* consumer: result of its last pop / wait_and_pop call
    pushed,     \* history: values accepted by push, in order of publication
    popped,     \* history: values returned by successful pops, in order
    n_push,     \* history: number of push calls started
    \* ---- DeribitClient, Receiver, RequestSender, WebSocketBeast ----
    connected,      \* DeribitClient::connected
    r_running,      \* Receiver::running
    s_running,      \* RequestSender::running
    shutting_down,  \* WebSocketBeast::shutting_down_
    a_pc,           \* application thread: position in connect() / close()
    r_pc,           \* Receiver thread: position in run()
    s_pc,           \* Sender thread: position in its loop
    dl_pc,          \* dispatcher thread: position in dispatch_loop()
    n_frames,       \* frames the transport has delivered so far
    dispatched,     \* history: messages handed to Dispatcher::dispatch
    \* ---- Dispatcher ----
    rpc_handler,    \* RPCHandler rpc_handler[MAX_INFLIGHT]
    sub_handler,    \* void (*sub_handler[SUB_TABLE])(const ParsedMessage&)
    d_pc,           \* dispatcher thread: position inside dispatch()
    frame,          \* the JSON message being dispatched
    pm,             \* ParsedMessage pm of the running dispatch
    calls,          \* handler invocations made by the running / last dispatch
    reg_pc,         \* registering thread: position inside register_rpc()
    reg,            \* registering thread: arguments of its register_rpc call
    n_reg,          \* history: number of register_rpc calls started
    n_subreg,       \* history: number of register_subscription calls
    sub_regd,       \* history: channels passed to register_subscription
    reg_done,       \* history: per slot, the last completed register_rpc
    reg_count,      \* history: per slot, number of completed register_rpc
    d_clean,        \* history: no registration has written the slot of the
                    \* running / last dispatch since that dispatch began
    \* ---- RateLimiter ----
    now,            \* std::chrono::steady_clock::now()
    rl,             \* RateLimiter {tokens, last_refill}
    rl_ok,          \* result of the last allow_request call
    n_allow,        \* history: number of allow_request calls
    n_ok,           \* history: number of allow_request calls that returned true
    t_first,        \* history: time of the first allow_request call
    \* ---- DeribitClient send side, RequestSender ----
    f_pc,           \* application thread: position in send_rpc() / subscribe()
    f_ret,          \* value returned by the last send_rpc call
    access_token,   \* DeribitClient::access_token
    s_rl,           \* RequestSender::rl
    wire,           \* history: frames passed to ws.send, in order
    n_calls,        \* history: number of send_rpc / subscribe calls
    n_sub,          \* history: number of subscribe calls among them
    f_call,         \* history: the arguments of the running / last call
    \* ---- fetch_n_ohlcv ----
    h_pc,           \* calling thread: position in fetch_n_ohlcv()
    h_n,            \* n_candles
    h_res,          \* resolution
    out,            \* std::vector<OHLCV> out (each candle by its ts_ms)
    done,           \* bool done
    current_end_ts, \* current_end_ts
    current_start_ts,   \* current_start_ts of the running iteration
    last_size,      \* last_size
    h_ret,          \* the vector the call returned
    h_reqs,         \* history: the requests the call passed to send_rpc
                    \* and the gate admitted
    h_answered,     \* history: number of requests the server has answered
    h_recv,         \* history: candles appended by the success handler
    h_uaf           \* history: a handler ran with the context of a call
                    \* that had returned

qvars == <<buffer, head, tail, p_pc, p_h, p_v, push_ret,
           c_pc, c_mode, c_t, c_v, pop_ret, pushed, popped, n_push>>

cvars == <<connected, r_running, s_running, shutting_down,
           a_pc, r_pc, s_pc, dl_pc, n_frames, dispatched>>

dvars == <<rpc_handler, sub_handler, d_pc, frame, pm, calls, reg_pc, reg,
           n_reg, n_subreg, sub_regd, reg_done, reg_count, d_clean>>

rvars == <<now, rl, rl_ok, n_allow, n_ok, t_first>>

svars == <<f_pc, f_ret, access_token, s_rl, wire, n_calls, n_sub, f_call>>

hvars == <<h_pc, h_n, h_res, out, done, current_end_ts, current_start_ts,
           last_size, h_ret, h_reqs, h_answered, h_recv, h_uaf>>

vars == <<qvars, cvars, dvars, rvars, svars, hvars>>

----------------------------------------------------------------------------
(***************************************************************************)
(* SPSCQueue                                                               *)
(***************************************************************************)

\* (i + 1) & (N - 1): the power-of-two wrap of an index
Wrap(i) == i % N

\* a full check that is never true: every push is accepted
QueueFullNever(next, t) == FALSE

\* a full check that is off by one slot: refuses while a slot is still free
QueueFullEarly(next, t) == next = t \/ Wrap(next + 1) = t

\* push: "if (next == tail.load(acquire)) return false"
QueueFull(next, t) == next = t

\* pop: "if (t == head.load(acquire)) return nullopt"; also empty()
QueueEmpty(t, h) == t = h

\* number of elements published by push and not yet released by pop
Stored == Len(pushed) - Len(popped)

QInit ==
    /\ buffer = [i \in 0 .. N - 1 |-> 0]
    /\ head = 0
    /\ tail = 0
    /\ p_pc = [t \in Pushers |-> "idle"]
    /\ p_h = [t \in Pushers |-> 0]
    /\ p_v = [t \in Pushers |-> 0]
    /\ push_ret = [t \in Pushers |-> "none"]
    /\ c_pc = "idle"
    /\ c_mode = "pop"
    /\ c_t = 0
    /\ c_v = 0
    /\ pop_ret = "none"
    /\ pushed = <<>>
    /\ popped = <<>>
    /\ n_push = 0

\* push(v), line 57: h = head.load(relaxed); next = (h + 1) & (N - 1)
PushBegin(t, v) ==
    /\ p_pc[t] = "idle"
    /\ p_pc' = [p_pc EXCEPT ![t] = "check"]
    /\ p_h' = [p_h EXCEPT ![t] = head]
    /\ p_v' = [p_v EXCEPT ![t] = v]
    /\ push_ret' = [push_ret EXCEPT ![t] = "pending"]
    /\ n_push' = n_push + 1
    /\ UNCHANGED <<buffer, head, tail, c_pc, c_mode, c_t, c_v, pop_ret,
                   pushed, popped>>

\* push, line 62: the full check against tail.load(acquire)
PushCheck(t) ==
    /\ p_pc[t] = "check"
    /\ IF QueueFull(Wrap(p_h[t] + 1), tail)
         THEN /\ p_pc' = [p_pc EXCEPT ![t] = "idle"]
              /\ push_ret' = [push_ret EXCEPT ![t] = "false"]
         ELSE /\ p_pc' = [p_pc EXCEPT ![t] = "store_buf"]
              /\ UNCHANGED push_ret
    /\ UNCHANGED <<buffer, head, tail, p_h, p_v, c_pc, c_mode, c_t, c_v,
                   pop_ret, pushed, popped, n_push>>

\* push, line 65: buffer[h] = v
PushStoreBuf(t) ==
    /\ p_pc[t] = "store_buf"
    /\ buffer' = [buffer EXCEPT ![p_h[t]] = p_v[t]]
    /\ p_pc' = [p_pc EXCEPT ![t] = "store_head"]
    /\ UNCHANGED <<head, tail, p_h, p_v, push_ret, c_pc, c_mode, c_t, c_v,
                   pop_ret, pushed, popped, n_push>>

\* push, line 66: head.store(next, release)
PushStoreHead(t) ==
    /\ p_pc[t] = "store_head"
    /\ head' = Wrap(p_h[t] + 1)
    /\ pushed' = Append(pushed, p_v[t])
    /\ p_pc' = [p_pc EXCEPT ![t] = "notify"]
    /\ UNCHANGED <<buffer, tail, p_h, p_v, push_ret, c_pc, c_mode, c_t, c_v,
                   pop_ret, popped, n_push>>

\* push, lines 69-71: cv_.notify_one() without holding mtx_; return true.
\* notify_one wakes the consumer only if it is blocked in cv_.wait now.
PushNotify(t) ==
    /\ p_pc[t] = "notify"
    /\ c_pc' = IF c_pc = "blocked" THEN "pred" ELSE c_pc
    /\ p_pc' = [p_pc EXCEPT ![t] = "idle"]
    /\ push_ret' = [push_ret EXCEPT ![t] = "true"]
    /\ UNCHANGED <<buffer, head, tail, p_h, p_v, c_mode, c_t, c_v,
                   pop_ret, pushed, popped, n_push>>

\* the steps of a push call in progress
PushStep(t) ==
    \/ PushCheck(t)
    \/ PushStoreBuf(t)
    \/ PushStoreHead(t)
    \/ PushNotify(t)

\* pop(), line 84: t = tail.load(relaxed); mode names the caller:
\* "pop" (a plain pop call) or "wap_fast" (the fast path of wait_and_pop)
PopBegin(mode) ==
    /\ c_pc = "idle"
    /\ c_pc' = "pop_check"
    /\ c_mode' = mode
    /\ c_t' = tail
    /\ pop_ret' = "pending"
    /\ UNCHANGED <<buffer, head, tail, p_pc, p_h, p_v, push_ret, c_v,
                   pushed, popped, n_push>>

\* pop, line 85: the empty check against head.load(acquire).
\* An empty fast path of wait_and_pop goes on to lock mtx_ (line 111); the
\* pop of line 117 dereferences its result unchecked.
PopCheck ==
    /\ c_pc = "pop_check"
    /\ IF QueueEmpty(c_t, head)
         THEN CASE c_mode = "pop" ->
                     /\ c_pc' = "idle"
                     /\ pop_ret' = "nullopt"
                [] c_mode = "wap_fast" ->
                     /\ c_pc' = "pred"
                     /\ UNCHANGED pop_ret
                [] OTHER ->
                     /\ c_pc' = "idle"
                     /\ pop_ret' = "undefined"
         ELSE /\ c_pc' = "pop_read"
              /\ UNCHANGED pop_ret
    /\ UNCHANGED <<buffer, head, tail, p_pc, p_h, p_v, push_ret, c_mode,
                   c_t, c_v, pushed, popped, n_push>>

\* a pop that reads the slot after the one tail names
PopReadNextSlot ==
    /\ c_pc = "pop_read"
    /\ c_v' = buffer[Wrap(c_t + 1)]
    /\ c_pc' = "pop_store"
    /\ UNCHANGED <<buffer, head, tail, p_pc, p_h, p_v, push_ret, c_mode,
                   c_t, pop_ret, pushed, popped, n_push>>

\* pop, line 89: T v = buffer[t]
PopRead ==
    /\ c_pc = "pop_read"
    /\ c_v' = buffer[c_t]
    /\ c_pc' = "pop_store"
    /\ UNCHANGED <<buffer, head, tail, p_pc, p_h, p_v, push_ret, c_mode,
                   c_t, pop_ret, pushed, popped, n_push>>

\* a pop that returns the element and leaves tail where it was
PopStoreTailStuck ==
    /\ c_pc = "pop_store"
    /\ tail' = c_t
    /\ popped' = Append(popped, c_v)
    /\ pop_ret' = "value"
    /\ c_pc' = "idle"
    /\ UNCHANGED <<buffer, head, p_pc, p_h, p_v, push_ret, c_mode,
                   c_t, c_v, pushed, n_push>>

\* pop, lines 90-91: tail.store((t + 1) & (N - 1), release); return v
PopStoreTail ==
    /\ c_pc = "pop_store"
    /\ tail' = Wrap(c_t + 1)
    /\ popped' = Append(popped, c_v)
    /\ pop_ret' = "value"
    /\ c_pc' = "idle"
    /\ UNCHANGED <<buffer, head, p_pc, p_h, p_v, push_ret, c_mode,
                   c_t, c_v, pushed, n_push>>

\* wait_and_pop, lines 112-114: the predicate !empty() of cv_.wait, evaluated
\* with mtx_ held. When it holds the wait ends and pop() of line 117 starts.
WaitPred ==
    /\ c_pc = "pred"
    /\ IF ~QueueEmpty(tail, head)
         THEN /\ c_pc' = "pop_check"
              /\ c_mode' = "wap_slow"
              /\ c_t' = tail
         ELSE /\ c_pc' = "wait"
              /\ UNCHANGED <<c_mode, c_t>>
    /\ UNCHANGED <<buffer, head, tail, p_pc, p_h, p_v, push_ret, c_v,
                   pop_ret, pushed, popped, n_push>>

\* wait_and_pop, line 112: cv_.wait releases mtx_ and blocks the consumer
WaitBlock ==
    /\ c_pc = "wait"
    /\ c_pc' = "blocked"
    /\ UNCHANGED <<buffer, head, tail, p_pc, p_h, p_v, push_ret, c_mode,
                   c_t, c_v, pop_ret, pushed, popped, n_push>>

\* a condition variable may wake without a notification
SpuriousWake ==
    /\ c_pc = "blocked"
    /\ c_pc' = "pred"
    /\ UNCHANGED <<buffer, head, tail, p_pc, p_h, p_v, push_ret, c_mode,
                   c_t, c_v, pop_ret, pushed, popped, n_push>>

\* the steps of a pop or wait_and_pop call in progress
PopStep ==
    \/ PopCheck
    \/ PopRead
    \/ PopStoreTail
    \/ WaitPred
    \/ WaitBlock

----------------------------------------------------------------------------
(***************************************************************************)
(* DeribitClient with its Receiver, RequestSender and dispatcher threads,  *)
(* around the inbound queue. A frame is the number of its arrival; the     *)
(* empty string is 0.                                                      *)
(***************************************************************************)

\* the client facade before connect(): flags false, no thread started
CInit ==
    /\ connected = FALSE /\ r_running = FALSE /\ s_running = FALSE
    /\ shutting_down = FALSE
    /\ a_pc = "constructed" /\ r_pc = "not_started" /\ s_pc = "not_started"
    /\ dl_pc = "not_started"
    /\ n_frames = 0 /\ dispatched = <<>>

\* connect(): connected = true; receiver.start(); sender.start(); the
\* dispatcher thread is created
Connect ==
    /\ a_pc = "constructed"
    /\ connected' = TRUE
    /\ r_running' = TRUE
    /\ s_running' = TRUE
    /\ r_pc' = "loop"
    /\ s_pc' = "loop"
    /\ dl_pc' = "wait"
    /\ a_pc' = "connected"
    /\ UNCHANGED <<shutting_down, n_frames, dispatched>>
    /\ UNCHANGED <<qvars, dvars, rvars, svars, hvars>>

\* Receiver::run, "while (running.load(acquire))"
RecvLoopCheck ==
    /\ r_pc = "loop"
    /\ r_pc' = IF r_running THEN "read" ELSE "exited"
    /\ UNCHANGED <<connected, r_running, s_running, shutting_down, a_pc,
                   s_pc, dl_pc, n_frames, dispatched>>
    /\ UNCHANGED <<qvars, dvars, rvars, svars, hvars>>

\* Receiver::run, ws.read() returns the next frame and queue.push starts
RecvReadFrame ==
    /\ r_pc = "read"
    /\ ~shutting_down
    /\ n_frames < MaxFrames
    /\ n_frames' = n_frames + 1
    /\ PushBegin(Receiver, n_frames + 1)
    /\ r_pc' = "push"
    /\ UNCHANGED <<connected, r_running, s_running, shutting_down, a_pc,
                   s_pc, dl_pc, dispatched>>
    /\ UNCHANGED <<dvars, rvars, svars, hvars>>

\* Receiver::run, ws.read() returns "" once the socket is shutting down:
\* "if (msg.empty()) break"
RecvReadEmpty ==
    /\ r_pc = "read"
    /\ shutting_down
    /\ r_pc' = "exited"
    /\ UNCHANGED <<connected, r_running, s_running, shutting_down, a_pc,
                   s_pc, dl_pc, n_frames, dispatched>>
    /\ UNCHANGED <<qvars, dvars, rvars, svars, hvars>>

\* a Receiver that keeps the frame of a refused push and never returns to
\* the head of its loop
RecvPushStepRetry ==
    /\ r_pc = "push"
    /\ PushStep(Receiver)
    /\ r_pc' = IF push_ret'[Receiver] = "true" THEN "loop" ELSE "push"
    /\ UNCHANGED <<connected, r_running, s_running, shutting_down, a_pc,
                   s_pc, dl_pc, n_frames, dispatched>>
    /\ UNCHANGED <<dvars, rvars, svars, hvars>>

\* Receiver::run, one step of queue.push(std::move(msg))
RecvPushStep ==
    /\ r_pc = "push"
    /\ PushStep(Receiver)
    /\ r_pc' = IF p_pc'[Receiver] = "idle" THEN "loop" ELSE "push"
    /\ UNCHANGED <<connected, r_running, s_running, shutting_down, a_pc,
                   s_pc, dl_pc, n_frames, dispatched>>
    /\ UNCHANGED <<dvars, rvars, svars, hvars>>

\* RequestSender worker, "while (running.load())": one more iteration
SenderIterate ==
    /\ s_pc = "loop"
    /\ s_running
    /\ s_pc' = "iter"
    /\ UNCHANGED <<connected, r_running, s_running, shutting_down, a_pc,
                   r_pc, dl_pc, n_frames, dispatched>>
    /\ UNCHANGED <<qvars, dvars, rvars, svars, hvars>>

\* RequestSender worker: the body of the loop ends
SenderIterEnd ==
    /\ s_pc = "iter"
    /\ s_pc' = "loop"
    /\ UNCHANGED <<connected, r_running, s_running, shutting_down, a_pc,
                   r_pc, dl_pc, n_frames, dispatched>>
    /\ UNCHANGED <<qvars, dvars, rvars, svars, hvars>>

\* RequestSender worker, "while (running.load())" reads false
SenderExit ==
    /\ s_pc = "loop"
    /\ ~s_running
    /\ s_pc' = "exited"
    /\ UNCHANGED <<connected, r_running, s_running, shutting_down, a_pc,
                   r_pc, dl_pc, n_frames, dispatched>>
    /\ UNCHANGED <<qvars, dvars, rvars, svars, hvars>>

\* dispatch_loop, "auto msg = inbound_queue.wait_and_pop()" starts
DlWaitAndPop ==
    /\ dl_pc = "wait"
    /\ PopBegin("wap_fast")
    /\ dl_pc' = "popping"
    /\ UNCHANGED <<connected, r_running, s_running, shutting_down, a_pc,
                   r_pc, s_pc, n_frames, dispatched>>
    /\ UNCHANGED <<dvars, rvars, svars, hvars>>

\* dispatch_loop, one step of the wait_and_pop call
DlPopStep ==
    /\ dl_pc = "popping"
    /\ (PopStep \/ SpuriousWake)
    /\ dl_pc' = IF c_pc' = "idle" THEN "got" ELSE "popping"
    /\ UNCHANGED <<connected, r_running, s_running, shutting_down, a_pc,
                   r_pc, s_pc, n_frames, dispatched>>
    /\ UNCHANGED <<dvars, rvars, svars, hvars>>

\* a dispatch loop that exits on the empty message only
DlGotSentinelOnly ==
    /\ dl_pc = "got"
    /\ IF pop_ret = "undefined"
         THEN /\ dl_pc' = "undefined"
              /\ UNCHANGED dispatched
         ELSE IF c_v = 0
           THEN /\ dl_pc' = "exited"
                /\ UNCHANGED dispatched
           ELSE /\ dl_pc' = "wait"
                /\ dispatched' = Append(dispatched, c_v)
    /\ UNCHANGED <<connected, r_running, s_running, shutting_down, a_pc,
                   r_pc, s_pc, n_frames>>
    /\ UNCHANGED <<qvars, dvars, rvars, svars, hvars>>

\* dispatch_loop, lines 430-435: break on !connected or an empty message,
\* else dispatch the message. A wait_and_pop that dereferenced an empty
\* optional leaves the thread in an undefined state.
DlGot ==
    /\ dl_pc = "got"
    /\ IF pop_ret = "undefined"
         THEN /\ dl_pc' = "undefined"
              /\ UNCHANGED dispatched
         ELSE IF ~connected \/ c_v = 0
           THEN /\ dl_pc' = "exited"
                /\ UNCHANGED dispatched
           ELSE /\ dl_pc' = "wait"
                /\ dispatched' = Append(dispatched, c_v)
    /\ UNCHANGED <<connected, r_running, s_running, shutting_down, a_pc,
                   r_pc, s_pc, n_frames>>
    /\ UNCHANGED <<qvars, dvars, rvars, svars, hvars>>

\* close(), line 447: connected.store(false, release)
CloseStoreFlag ==
    /\ a_pc = "connected"
    /\ connected' = FALSE
    /\ a_pc' = "close_push"
    /\ UNCHANGED <<r_running, s_running, shutting_down, r_pc, s_pc, dl_pc,
                   n_frames, dispatched>>
    /\ UNCHANGED <<qvars, dvars, rvars, svars, hvars>>

\* close(), line 449: inbound_queue.push("") starts, on the caller's thread
ClosePushBegin ==
    /\ a_pc = "close_push"
    /\ PushBegin(App, 0)
    /\ a_pc' = "close_pushing"
    /\ UNCHANGED <<connected, r_running, s_running, shutting_down, r_pc,
                   s_pc, dl_pc, n_frames, dispatched>>
    /\ UNCHANGED <<dvars, rvars, svars, hvars>>

\* close(), line 449: one step of inbound_queue.push("")
ClosePushStep ==
    /\ a_pc = "close_pushing"
    /\ PushStep(App)
    /\ a_pc' = IF p_pc'[App] = "idle" THEN "close_request_stop"
               ELSE "close_pushing"
    /\ UNCHANGED <<connected, r_running, s_running, shutting_down, r_pc,
                   s_pc, dl_pc, n_frames, dispatched>>
    /\ UNCHANGED <<dvars, rvars, svars, hvars>>

\* close(), lines 451-454: receiver.request_stop(), then the sleep
CloseRequestStop ==
    /\ a_pc = "close_request_stop"
    /\ r_running' = FALSE
    /\ a_pc' = "close_sender"
    /\ UNCHANGED <<connected, s_running, shutting_down, r_pc, s_pc, dl_pc,
                   n_frames, dispatched>>
    /\ UNCHANGED <<qvars, dvars, rvars, svars, hvars>>

\* close(), line 456: sender.stop() clears RequestSender::running
CloseStopSender ==
    /\ a_pc = "close_sender"
    /\ s_running' = FALSE
    /\ a_pc' = "join_sender"
    /\ UNCHANGED <<connected, r_running, shutting_down, r_pc, s_pc, dl_pc,
                   n_frames, dispatched>>
    /\ UNCHANGED <<qvars, dvars, rvars, svars, hvars>>

\* close(), lines 456-457: sender.stop() joins the worker; receiver.stop()
\* clears running and ws.close() sets shutting_down_
CloseStopReceiver ==
    /\ a_pc = "join_sender"
    /\ s_pc = "exited"
    /\ r_running' = FALSE
    /\ shutting_down' = TRUE
    /\ a_pc' = "join_receiver"
    /\ UNCHANGED <<connected, s_running, r_pc, s_pc, dl_pc, n_frames,
                   dispatched>>
    /\ UNCHANGED <<qvars, dvars, rvars, svars, hvars>>

\* close(), line 457: receiver.stop() joins the Receiver thread
CloseJoinReceiver ==
    /\ a_pc = "join_receiver"
    /\ r_pc = "exited"
    /\ a_pc' = "join_dispatcher"
    /\ UNCHANGED <<connected, r_running, s_running, shutting_down, r_pc,
                   s_pc, dl_pc, n_frames, dispatched>>
    /\ UNCHANGED <<qvars, dvars, rvars, svars, hvars>>

\* close(), lines 459-461: dispatcher_thread.join()
CloseJoinDispatcher ==
    /\ a_pc = "join_dispatcher"
    /\ dl_pc = "exited"
    /\ a_pc' = "closed"
    /\ UNCHANGED <<connected, r_running, s_running, shutting_down, r_pc,
                   s_pc, dl_pc, n_frames, dispatched>>
    /\ UNCHANGED <<qvars, dvars, rvars, svars, hvars>>

\* the positions of a call of close() made after a completed call
RecloseSteps ==
    { "reclose_push", "reclose_pushing", "reclose_request_stop",
      "reclose_sender", "reclose_receiver", "reclose_dispatcher" }

\* std::thread::joinable(): the thread was started and join() has not
\* returned for it. The first close() joins the worker of the Sender, then
\* the thread of the Receiver, then dispatcher_thread.
SenderJoinable ==
    a_pc \notin {"constructed", "join_receiver", "join_dispatcher", "closed",
                 "threw"} \cup RecloseSteps

ReceiverJoinable ==
    a_pc \notin {"constructed", "join_dispatcher", "closed", "threw"}
                 \cup RecloseSteps

DispatcherJoinable ==
    a_pc \notin {"constructed", "closed", "threw"} \cup RecloseSteps

\* a stop() that joins without asking joinable()
JoinsUnconditionally(joinable) == TRUE

\* RequestSender::stop, Receiver::stop and close(): "if (th.joinable())"
JoinGuard(joinable) == joinable

\* close() called again, line 447: connected.store(false, release)
RecloseStoreFlag ==
    /\ a_pc = "closed"
    /\ n_push < MaxPush
    /\ connected' = FALSE
    /\ a_pc' = "reclose_push"
    /\ UNCHANGED <<connected, r_running, s_running, shutting_down, r_pc,
                   s_pc, dl_pc, n_frames, dispatched>>
    /\ UNCHANGED <<qvars, dvars, rvars, svars, hvars>>

\* close() called again, line 449: inbound_queue.push("") starts
ReclosePushBegin ==
    /\ a_pc = "reclose_push"
    /\ PushBegin(App, 0)
    /\ a_pc' = "reclose_pushing"
    /\ UNCHANGED <<connected, r_running, s_running, shutting_down, r_pc,
                   s_pc, dl_pc, n_frames, dispatched>>
    /\ UNCHANGED <<dvars, rvars, svars, hvars>>

\* close() called again, line 449: one step of inbound_queue.push("")
ReclosePushStep ==
    /\ a_pc = "reclose_pushing"
    /\ PushStep(App)
    /\ a_pc' = IF p_pc'[App] = "idle" THEN "reclose_request_stop"
               ELSE "reclose_pushing"
    /\ UNCHANGED <<connected, r_running, s_running, shutting_down, r_pc,
                   s_pc, dl_pc, n_frames, dispatched>>
    /\ UNCHANGED <<dvars, rvars, svars, hvars>>

\* close() called again, lines 451-454: receiver.request_stop(), the sleep
RecloseRequestStop ==
    /\ a_pc = "reclose_request_stop"
    /\ r_running' = FALSE
    /\ a_pc' = "reclose_sender"
    /\ UNCHANGED <<connected, s_running, shutting_down, r_pc, s_pc, dl_pc,
                   n_frames, dispatched>>
    /\ UNCHANGED <<qvars, dvars, rvars, svars, hvars>>

\* close() called again, line 456: sender.stop() clears running and joins
\* the worker if it is joinable; join() of a thread that is not joinable
\* throws std::system_error
RecloseStopSender ==
    /\ a_pc = "reclose_sender"
    /\ s_running' = FALSE
    /\ IF JoinGuard(SenderJoinable)
         THEN /\ SenderJoinable => s_pc = "exited"
              /\ a_pc' = IF SenderJoinable THEN "reclose_receiver" ELSE "threw"
         ELSE a_pc' = "reclose_receiver"
    /\ UNCHANGED <<connected, r_running, shutting_down, r_pc, s_pc, dl_pc,
                   n_frames, dispatched>>
    /\ UNCHANGED <<qvars, dvars, rvars, svars, hvars>>

\* close() called again, line 457: receiver.stop() clears running, closes
\* the transport (WebSocketBeast::close catches what ws_.close throws) and
\* joins the thread if it is joinable
RecloseStopReceiver ==
    /\ a_pc = "reclose_receiver"
    /\ r_running' = FALSE
    /\ shutting_down' = TRUE
    /\ IF JoinGuard(ReceiverJoinable)
         THEN /\ ReceiverJoinable => r_pc = "exited"
              /\ a_pc' = IF ReceiverJoinable THEN "reclose_dispatcher"
                         ELSE "threw"
         ELSE a_pc' = "reclose_dispatcher"
    /\ UNCHANGED <<connected, s_running, r_pc, s_pc, dl_pc, n_frames,
                   dispatched>>
    /\ UNCHANGED <<qvars, dvars, rvars, svars, hvars>>

\* close() called again, lines 459-461: dispatcher_thread.join() if joinable
RecloseJoinDispatcher ==
    /\ a_pc = "reclose_dispatcher"
    /\ IF JoinGuard(DispatcherJoinable)
         THEN /\ DispatcherJoinable => dl_pc = "exited"
              /\ a_pc' = IF DispatcherJoinable THEN "closed" ELSE "threw"
         ELSE a_pc' = "closed"
    /\ UNCHANGED <<connected, r_running, s_running, shutting_down, r_pc,
                   s_pc, dl_pc, n_frames, dispatched>>
    /\ UNCHANGED <<qvars, dvars, rvars, svars, hvars>>

----------------------------------------------------------------------------
(***************************************************************************)
(* Dispatcher (dispatcher.h, fast_hash.h, rpc_handler.h, parsed_message.h) *)
(***************************************************************************)

\* static constexpr size_t MAX_INFLIGHT = 4096
MAX_INFLIGHT == 4096

\* static constexpr size_t SUB_TABLE = 4096
SUB_TABLE == 4096

\* one 16-bit limb: a uint32_t is kept as <<high limb, low limb>>
Limb == 2 ^ 16

\* FNV-1a offset basis 2166136261u = 33052 * 2^16 + 40389
FNV_OFFSET_HI == 33052
FNV_OFFSET_LO == 40389

\* FNV-1a prime 16777619u = 256 * 2^16 + 403
FNV_PRIME_HI == 256
FNV_PRIME_LO == 403

\* bitwise exclusive or of two naturals
RECURSIVE BitXor(_, _)
BitXor(a, b) ==
    IF a = 0 THEN b
    ELSE IF b = 0 THEN a
    ELSE (((a % 2) + (b % 2)) % 2) + 2 * BitXor(a \div 2, b \div 2)

\* fast_hash, lines 22-23: prime ^= c; prime *= 16777619u (mod 2^32)
FnvStep(h, c) ==
    LET lo == BitXor(h[2], c)
        m  == lo * FNV_PRIME_LO
    IN  << (h[1] * FNV_PRIME_LO + lo * FNV_PRIME_HI + (m \div Limb)) % Limb,
           m % Limb >>

RECURSIVE FnvFold(_, _, _)
FnvFold(sv, i, h) ==
    IF i > Len(sv) THEN h ELSE FnvFold(sv, i + 1, FnvStep(h, sv[i]))

\* fast_hash(sv): 32-bit FNV-1a of the bytes of sv, as <<high, low>> limbs
fast_hash(sv) == FnvFold(sv, 1, <<FNV_OFFSET_HI, FNV_OFFSET_LO>>)

\* fast_hash(channel) & (SUB_TABLE - 1)
SubIdx(channel) == fast_hash(channel)[2] % SUB_TABLE

\* id & (MAX_INFLIGHT - 1)
RpcSlot(id) == id % MAX_INFLIGHT

\* the request ids of the model: 1 and 4097 share a slot
Ids == {1, 4097}

\* the channel names of the model, as byte strings: "a", "fb", "aid";
\* "fb" and "aid" hash to the same slot
Channels == { <<97>>, <<102, 98>>, <<97, 105, 100>> }

\* constexpr uint64_t AUTH_ID = 9001
AUTH_ID == 9001

\* fetch_n_ohlcv: "constexpr uint64_t RPC_ID = 0xC0FFEE"
RPC_ID == 12648430

RpcSlots == { RpcSlot(i) : i \in Ids \cup {AUTH_ID, RPC_ID} }
SubSlots == { SubIdx(c) : c \in Channels }

\* the function pointers and the user data that the k-th register_rpc call
\* passes; 0 is nullptr
SuccessFn(k) == 2 * k - 1
ErrorFn(k) == 2 * k
UserData(k) == k

\* the two lambdas authenticate() registers and its user pointer (this)
AuthSuccessFn == -1
AuthErrorFn == -2
AuthUserData == -1

\* RPCHandler: on_success, on_error, user_data
NullHandler == [on_success |-> 0, on_error |-> 0, user_data |-> 0]

\* ParsedMessage, default constructed (the fields the dispatcher routes on)
EmptyPM == [is_rpc |-> FALSE, is_subscription |-> FALSE, is_error |-> FALSE,
            id |-> 0, channel |-> <<>>, data |-> "", result |-> "",
            access_token |-> <<>>]

\* An inbound frame, by what the on-demand parser finds in it:
\*   ok        parser.iterate succeeded
\*   id_kind   "absent", "not_uint" (get_uint64 fails) or "uint"
\*   method    "absent", "subscription" or "other"
\*   error     "absent", "null" or "value"
\*   result    "absent", "value", or a member t of TokenResults: the
\*             result is an object whose access_token is the string t
\*   params    "absent", "not_object" or "object"
\*   chan_kind "absent", "not_string" or "string" (params.channel)
\*   data      "absent" or the raw JSON text of params.data
Frame(ok, ik, id, m, e, r, p, ck, ch, d) ==
    [ok |-> ok, id_kind |-> ik, id |-> id, method |-> m, error |-> e,
     result |-> r, params |-> p, chan_kind |-> ck, channel |-> ch, data |-> d]

NoFrame == Frame(FALSE, "absent", 0, "absent", "absent", "absent",
                 "absent", "absent", <<>>, "absent")

\* frames that do not parse
BadFrames == {NoFrame}

\* what a response carries: <<error, result>>
Outcomes == { <<"absent", "value">>, <<"null", "value">>,
              <<"value", "absent">>, <<"absent", "absent">> }

\* frames with an unsigned id: responses, and frames that carry an id
\* together with the fields of a notification
RpcFrames ==
    { Frame(TRUE, "uint", i, "absent", o[1], o[2], "absent", "absent", <<>>,
            "absent") : i \in Ids, o \in Outcomes }
    \cup
    { Frame(TRUE, "uint", i, "subscription", o[1], o[2], "object", "string",
            c, "D") : i \in Ids, o \in Outcomes, c \in {<<97>>} }

\* frames without an unsigned id: notifications, well formed or not
NotifFrames ==
    { Frame(TRUE, "absent", 0, "subscription", "absent", "absent", p,
            "absent", <<>>, "absent") : p \in {"absent", "not_object"} }
    \cup
    { Frame(TRUE, "absent", 0, "subscription", "absent", "absent", "object",
            "not_string", <<>>, "D") }
    \cup
    { Frame(TRUE, ik, 0, "subscription", "absent", "absent", "object",
            "string", c, d) :
        ik \in {"absent", "not_uint"}, c \in Channels, d \in {"absent", "D"} }
    \cup
    { Frame(TRUE, "absent", 0, m, e, "value", "object", "string", c, "D") :
        m \in {"absent", "other"}, e \in {"absent", "value"}, c \in {<<97>>} }

Frames == BadFrames \cup RpcFrames \cup NotifFrames

DInit ==
    /\ rpc_handler = [s \in RpcSlots |-> NullHandler]
    /\ sub_handler = [s \in SubSlots |-> 0]
    /\ d_pc = "idle"
    /\ frame = NoFrame
    /\ pm = EmptyPM
    /\ calls = <<>>
    /\ reg_pc = "idle"
    /\ reg = [slot |-> 0, on_success |-> 0, on_error |-> 0, user_data |-> 0]
    /\ n_reg = 0
    /\ n_subreg = 0
    /\ sub_regd = {}
    /\ reg_done = [s \in RpcSlots |-> 0]
    /\ reg_count = [s \in RpcSlots |-> 0]
    /\ d_clean = TRUE

\* lines 118-121: an "id" field that reads as uint64 makes the frame an RPC
IsRpc(f) == f.id_kind = "uint"

\* a classification that forgets the "if (!pm.is_rpc)" guard
IsSubscriptionNoGuard(f) == f.method = "subscription"

\* lines 126-132: no id and method == "subscription"
IsSubscription(f) == ~IsRpc(f) /\ f.method = "subscription"

\* line 150: the "error" field is present and not null
IsErrorResponse(f) == f.error = "value"

\* a selection that ignores the error field
RpcContinuationSuccessOnly(h, is_error) == h.on_success

\* lines 150-180: on_error for an error response, on_success otherwise
RpcContinuation(h, is_error) ==
    IF is_error THEN h.on_error ELSE h.on_success

\* the access tokens the server hands out
TokenResults == {"tok-xyz", "tok-abc"}

\* lines 171-177: result.access_token when result is an object that has a
\* string access_token, else nothing
AccessTokenOf(result) ==
    IF result \in TokenResults THEN << result >> ELSE <<>>

\* lines 113-177: the ParsedMessage after the classification and the RPC
\* section (is_error, result, access_token)
ClassifiedPM(f) ==
    [EmptyPM EXCEPT
        !.is_rpc = IsRpc(f),
        !.id = IF IsRpc(f) THEN f.id ELSE 0,
        !.is_subscription = IsSubscription(f),
        !.is_error = IsRpc(f) /\ IsErrorResponse(f),
        !.result = IF IsRpc(f) /\ ~IsErrorResponse(f) /\ f.result # "absent"
                     THEN "R" ELSE "",
        !.access_token = IF IsRpc(f) /\ ~IsErrorResponse(f)
                           THEN AccessTokenOf(f.result) ELSE <<>>]

\* line 185: where dispatch goes after the RPC section
AfterRpc(p) == IF p.is_subscription THEN "sub" ELSE "done"

\* a register_rpc store to the slot the running / last dispatch used
RacesWithDispatch(slot) ==
    frame.ok /\ IsRpc(frame) /\ RpcSlot(frame.id) = slot

\* a register_subscription store to the slot the running / last dispatch
\* looks up
SubRacesWithDispatch(idx) ==
    frame.ok /\ frame.chan_kind = "string" /\ SubIdx(frame.channel) = idx

\* dispatch(json), lines 106-161 / 179: parse, classify, and in the RPC
\* section test the continuation pointer ("if (h.on_error)")
DispatchBegin(f) ==
    /\ d_pc \in {"idle", "done"}
    /\ frame' = f
    /\ calls' = <<>>
    /\ IF ~f.ok
         THEN /\ pm' = EmptyPM
              /\ d_pc' = "done"
              /\ d_clean' = TRUE
         ELSE /\ pm' = ClassifiedPM(f)
              /\ IF IsRpc(f)
                   THEN LET slot == RpcSlot(f.id)
                            h == rpc_handler[slot]
                        IN  /\ d_pc' = IF RpcContinuation(h, pm'.is_error) # 0
                                         THEN "rpc_call" ELSE AfterRpc(pm')
                            /\ d_clean' = (reg_pc = "idle" \/ reg.slot # slot)
                   ELSE /\ d_pc' = AfterRpc(pm')
                        /\ d_clean' = TRUE
    /\ UNCHANGED <<rpc_handler, sub_handler, reg_pc, reg, n_reg, n_subreg, sub_regd,
                   reg_done, reg_count>>
    /\ UNCHANGED <<qvars, cvars, rvars, svars, hvars>>

\* an auth success lambda that stores whatever token the message carries
AuthSuccessBodyNoCheck(p) == p.access_token

\* authenticate's on_success lambda, DeribitClient lines 322-332: the
\* access token afterwards
AuthSuccessBody(p) ==
    IF p.access_token = <<>> THEN access_token ELSE p.access_token

\* detail::on_ohlcv_success, detail::on_ohlcv_error and the &ctx that
\* fetch_n_ohlcv registers with them
OhlcvSuccessFn == -3
OhlcvErrorFn == -4
OhlcvContext == -2

\* the resolutions of the model, and "res_ms": std::stoll of the resolution
\* ("1D" replaced by "1440") times 60 * 1000
Resolutions == {"1", "1D"}

\* a period taken from std::stoll of the resolution as given: "1D" reads 1
ResMsStoll(res) == 1 * 60 * 1000

ResMs(res) == (IF res = "1D" THEN 1440 ELSE 1) * 60 * 1000

\* the server may return up to MaxExtra candles more than the window holds
MaxExtra == 1

\* the "ticks" array of a response with k candles to a request whose window
\* ends at e: the k newest periods up to e, oldest first
ServerCandles(e, res, k) == [ j \in 1 .. k |-> e - (k - j) * ResMs(res) ]

\* the request the next response answers
NextRequest == h_reqs[h_answered + 1]

\* on_ohlcv_success, lines 25-59: append one candle per tick to *ctx->out,
\* then set *ctx->done under the mutex and notify. A context whose call has
\* returned is a dangling pointer.
OnOhlcvSuccess ==
    /\ h_answered < Len(h_reqs)
    /\ \E k \in 0 .. NextRequest.batch + MaxExtra :
          LET cs == ServerCandles(NextRequest.end_ts, NextRequest.res, k)
          IN  /\ out' = out \o cs
              /\ h_recv' = IF h_pc = "returned" THEN h_recv
                           ELSE h_recv \o cs
    /\ done' = TRUE
    /\ h_answered' = h_answered + 1
    /\ h_uaf' = (h_uaf \/ h_pc = "returned")
    /\ UNCHANGED <<h_pc, h_n, h_res, current_end_ts, current_start_ts,
                   last_size, h_ret, h_reqs>>

\* on_ohlcv_success, lines 28-39, called with a pm.result that is empty:
\* parser.parse(json) yields an error and its conversion to dom::element
\* throws simdjson_error. Neither dispatch nor dispatch_loop catches, so
\* the exception leaves the dispatcher thread and the process terminates
\* with every call still in progress.
OnOhlcvParseThrow ==
    /\ h_answered < Len(h_reqs)
    /\ h_pc' = "terminated"
    /\ h_answered' = h_answered + 1
    /\ UNCHANGED <<h_n, h_res, out, done, current_end_ts, current_start_ts,
                   last_size, h_ret, h_reqs, h_recv, h_uaf>>

\* an error handler that leaves done as it is
OnOhlcvErrorNoDone ==
    /\ h_answered < Len(h_reqs)
    /\ h_answered' = h_answered + 1
    /\ h_uaf' = (h_uaf \/ h_pc = "returned")
    /\ UNCHANGED <<h_pc, h_n, h_res, out, done, current_end_ts,
                   current_start_ts, last_size, h_ret, h_reqs, h_recv>>

\* on_ohlcv_error, lines 61-68: set *ctx->done under the mutex and notify
OnOhlcvError ==
    /\ h_answered < Len(h_reqs)
    /\ done' = TRUE
    /\ h_answered' = h_answered + 1
    /\ h_uaf' = (h_uaf \/ h_pc = "returned")
    /\ UNCHANGED <<h_pc, h_n, h_res, out, current_end_ts, current_start_ts,
                   last_size, h_ret, h_reqs, h_recv>>

\* what the body of the continuation fn does to the client when it is
\* called with message p; continuations of the application are opaque
HandlerEffect(fn, p) ==
    /\ access_token' = IF fn = AuthSuccessFn THEN AuthSuccessBody(p)
                       ELSE access_token
    /\ UNCHANGED <<f_pc, f_ret, s_rl, wire, n_calls, n_sub, f_call>>
    /\ CASE fn = OhlcvSuccessFn /\ p.result = "" -> OnOhlcvParseThrow
         [] fn = OhlcvSuccessFn /\ p.result # "" -> OnOhlcvSuccess
         [] fn = OhlcvErrorFn -> OnOhlcvError
         [] OTHER -> UNCHANGED hvars

\* a dispatch that empties the slot once it has invoked the continuation
DispatchRpcCallOneShot ==
    /\ d_pc = "rpc_call"
    /\ LET h == rpc_handler[RpcSlot(pm.id)]
       IN  calls' = Append(calls,
                [kind |-> IF pm.is_error THEN "on_error" ELSE "on_success",
                 fn |-> RpcContinuation(h, pm.is_error),
                 ud |-> h.user_data,
                 pm |-> pm])
    /\ HandlerEffect(RpcContinuation(rpc_handler[RpcSlot(pm.id)], pm.is_error),
                     pm)
    /\ d_pc' = AfterRpc(pm)
    /\ rpc_handler' = [rpc_handler EXCEPT ![RpcSlot(pm.id)] = NullHandler]
    /\ UNCHANGED <<sub_handler, frame, pm, reg_pc, reg, n_reg,
                   n_subreg, sub_regd, reg_done, reg_count, d_clean>>
    /\ UNCHANGED <<qvars, cvars, rvars>>

\* dispatch, lines 162 / 180: "h.on_error(pm, h.user_data)" or
\* "h.on_success(pm, h.user_data)": loads the pointer and the user data
DispatchRpcCall ==
    /\ d_pc = "rpc_call"
    /\ LET h == rpc_handler[RpcSlot(pm.id)]
       IN  calls' = Append(calls,
                [kind |-> IF pm.is_error THEN "on_error" ELSE "on_success",
                 fn |-> RpcContinuation(h, pm.is_error),
                 ud |-> h.user_data,
                 pm |-> pm])
    /\ HandlerEffect(RpcContinuation(rpc_handler[RpcSlot(pm.id)], pm.is_error),
                     pm)
    /\ d_pc' = AfterRpc(pm)
    /\ UNCHANGED <<rpc_handler, sub_handler, frame, pm, reg_pc, reg, n_reg,
                   n_subreg, sub_regd, reg_done, reg_count, d_clean>>
    /\ UNCHANGED <<qvars, cvars, rvars>>

\* a subscription section that forgets "pm.data = data_res.value()"
SubPMNoData(p, f) == [p EXCEPT !.channel = f.channel]

\* lines 196-202: pm.channel and pm.data of a notification
SubPM(p, f) == [p EXCEPT !.channel = f.channel, !.data = f.data]

\* dispatch, lines 185-207: the subscription section
DispatchSub ==
    /\ d_pc = "sub"
    /\ d_pc' = "done"
    /\ IF frame.params # "object" \/ frame.chan_kind # "string"
         THEN UNCHANGED <<pm, calls>>
         ELSE IF frame.data = "absent"
                THEN /\ pm' = [pm EXCEPT !.channel = frame.channel]
                     /\ UNCHANGED calls
                ELSE /\ pm' = SubPM(pm, frame)
                     /\ LET handler == sub_handler[SubIdx(frame.channel)]
                        IN  calls' = IF handler # 0
                                       THEN Append(calls,
                                              [kind |-> "sub", fn |-> handler,
                                               ud |-> 0, pm |-> pm'])
                                       ELSE calls
    /\ UNCHANGED <<rpc_handler, sub_handler, frame, reg_pc, reg, n_reg,
                   n_subreg, sub_regd, reg_done, reg_count, d_clean>>
    /\ UNCHANGED <<qvars, cvars, rvars, svars, hvars>>

\* register_rpc(id, on_success, on_error, user_data), lines 62-68: the call
\* and its first store, h.on_success = on_success. s_set / e_set say whether
\* the caller passes a continuation or nullptr.
RegisterRpcBegin(id, s_set, e_set) ==
    /\ reg_pc = "idle"
    /\ n_reg < MaxReg
    /\ LET gen == n_reg + 1
           slot == RpcSlot(id)
       IN  /\ reg' = [slot |-> slot,
                      on_success |-> IF s_set THEN SuccessFn(gen) ELSE 0,
                      on_error |-> IF e_set THEN ErrorFn(gen) ELSE 0,
                      user_data |-> UserData(gen)]
           /\ n_reg' = gen
           /\ rpc_handler' = [rpc_handler EXCEPT
                                ![slot].on_success = reg'.on_success]
           /\ d_clean' = (d_clean /\ ~RacesWithDispatch(slot))
    /\ reg_pc' = "store_error"
    /\ UNCHANGED <<sub_handler, d_pc, frame, pm, calls, n_subreg, sub_regd, reg_done,
                   reg_count>>
    /\ UNCHANGED <<qvars, cvars, rvars, svars, hvars>>

\* a register_rpc that stores on_error only when the caller passes one
RegStoreErrorKeep ==
    /\ reg_pc = "store_error"
    /\ rpc_handler' = IF reg.on_error # 0
                        THEN [rpc_handler EXCEPT
                                ![reg.slot].on_error = reg.on_error]
                        ELSE rpc_handler
    /\ d_clean' = (d_clean /\ ~RacesWithDispatch(reg.slot))
    /\ reg_pc' = "store_user_data"
    /\ UNCHANGED <<sub_handler, d_pc, frame, pm, calls, reg, n_reg, n_subreg, sub_regd,
                   reg_done, reg_count>>
    /\ UNCHANGED <<qvars, cvars, rvars, svars, hvars>>

\* register_rpc, line 69: h.on_error = on_error
RegStoreError ==
    /\ reg_pc = "store_error"
    /\ rpc_handler' = [rpc_handler EXCEPT ![reg.slot].on_error = reg.on_error]
    /\ d_clean' = (d_clean /\ ~RacesWithDispatch(reg.slot))
    /\ reg_pc' = "store_user_data"
    /\ UNCHANGED <<sub_handler, d_pc, frame, pm, calls, reg, n_reg, n_subreg, sub_regd,
                   reg_done, reg_count>>
    /\ UNCHANGED <<qvars, cvars, rvars, svars, hvars>>

\* register_rpc, lines 70-71: h.user_data = user_data; return
RegStoreUserData ==
    /\ reg_pc = "store_user_data"
    /\ rpc_handler' = [rpc_handler EXCEPT ![reg.slot].user_data = reg.user_data]
    /\ d_clean' = (d_clean /\ ~RacesWithDispatch(reg.slot))
    /\ reg_done' = [reg_done EXCEPT ![reg.slot] = n_reg]
    /\ reg_count' = [reg_count EXCEPT ![reg.slot] = @ + 1]
    /\ reg_pc' = "idle"
    /\ UNCHANGED <<sub_handler, d_pc, frame, pm, calls, reg, n_reg, n_subreg, sub_regd>>
    /\ UNCHANGED <<qvars, cvars, rvars, svars, hvars>>

\* a registration that stores the handler in every slot of the table
RegisterSubscriptionEverySlot(channel) ==
    /\ n_subreg < MaxSubReg
    /\ sub_handler' = [s \in SubSlots |-> n_subreg + 1]
    /\ n_subreg' = n_subreg + 1
    /\ sub_regd' = sub_regd \cup {channel}
    /\ d_clean' = (d_clean /\ ~SubRacesWithDispatch(SubIdx(channel)))
    /\ UNCHANGED <<rpc_handler, d_pc, frame, pm, calls, reg_pc, reg, n_reg,
                   reg_done, reg_count>>
    /\ UNCHANGED <<qvars, cvars, rvars, svars, hvars>>

\* register_subscription(channel, handler), lines 83-88; the handler passed
\* by the k-th call is named k
RegisterSubscription(channel) ==
    /\ n_subreg < MaxSubReg
    /\ sub_handler' = [sub_handler EXCEPT ![SubIdx(channel)] = n_subreg + 1]
    /\ n_subreg' = n_subreg + 1
    /\ sub_regd' = sub_regd \cup {channel}
    /\ d_clean' = (d_clean /\ ~SubRacesWithDispatch(SubIdx(channel)))
    /\ UNCHANGED <<rpc_handler, d_pc, frame, pm, calls, reg_pc, reg, n_reg,
                   reg_done, reg_count>>
    /\ UNCHANGED <<qvars, cvars, rvars, svars, hvars>>

----------------------------------------------------------------------------
(***************************************************************************)
(* RateLimiter. Time is counted in milliseconds and the token balance in   *)
(* thousandths of a token, so that the fractions of the double arithmetic  *)
(* of the code are exact.                                                  *)
(***************************************************************************)

\* duration<double>: one second, in clock units (milliseconds)
MsPerSecond == 1000

\* one token, in thousandths
TokenUnit == 1000

\* static constexpr double MAX_TOKENS = 20
MAX_TOKENS == 20

\* static constexpr double REFILL_RATE = 5 (tokens per second)
REFILL_RATE == 5

Min(a, b) == IF a <= b THEN a ELSE b

\* RateLimiter(): tokens(MAX_TOKENS), last_refill(now)
NewRateLimiter(t) == [tokens |-> MAX_TOKENS * TokenUnit, last_refill |-> t]

\* a refill without the std::min clamp
RefillUnclamped(tokens, elapsed) ==
    tokens + ((REFILL_RATE * TokenUnit * elapsed) \div MsPerSecond)

\* line 55: std::min(MAX_TOKENS, tokens + REFILL_RATE * elapsed)
Refill(tokens, elapsed) ==
    Min(MAX_TOKENS * TokenUnit,
        tokens + ((REFILL_RATE * TokenUnit * elapsed) \div MsPerSecond))

\* an allow_request that admits without consuming a token
AllowRequestNoConsume(l, t) ==
    LET filled == Refill(l.tokens, t - l.last_refill)
    IN  [rl |-> [tokens |-> filled, last_refill |-> t],
         ok |-> filled >= TokenUnit]

\* an allow_request that admits on any positive fraction of a token
AllowRequestAnyFraction(l, t) ==
    LET filled == Refill(l.tokens, t - l.last_refill)
    IN  IF filled > 0
          THEN [rl |-> [tokens |-> filled - Min(filled, TokenUnit),
                        last_refill |-> t],
                ok |-> TRUE]
          ELSE [rl |-> [tokens |-> filled, last_refill |-> t],
                ok |-> FALSE]

\* allow_request() at time t on limiter l: the limiter afterwards and the
\* value returned
AllowRequest(l, t) ==
    LET elapsed == t - l.last_refill
        filled == Refill(l.tokens, elapsed)
    IN  IF filled >= TokenUnit
          THEN [rl |-> [tokens |-> filled - TokenUnit, last_refill |-> t],
                ok |-> TRUE]
          ELSE [rl |-> [tokens |-> filled, last_refill |-> t],
                ok |-> FALSE]

RInit ==
    /\ now = 0
    /\ rl = NewRateLimiter(0)
    /\ rl_ok = TRUE
    /\ n_allow = 0
    /\ n_ok = 0
    /\ t_first = 0

\* steady_clock advances by dt milliseconds
Tick(dt) ==
    /\ now + dt <= MaxTime
    /\ now' = now + dt
    /\ UNCHANGED <<rl, rl_ok, n_allow, n_ok, t_first>>
    /\ UNCHANGED <<qvars, cvars, dvars, svars, hvars>>

\* a call of allow_request()
CallAllowRequest ==
    /\ n_allow < MaxAllow
    /\ LET r == AllowRequest(rl, now)
       IN  /\ rl' = r.rl
           /\ rl_ok' = r.ok
           /\ n_ok' = IF r.ok THEN n_ok + 1 ELSE n_ok
    /\ n_allow' = n_allow + 1
    /\ t_first' = IF n_allow = 0 THEN now ELSE t_first
    /\ UNCHANGED now
    /\ UNCHANGED <<qvars, cvars, dvars, svars, hvars>>

----------------------------------------------------------------------------
(***************************************************************************)
(* DeribitClient send side: send_rpc, subscribe, the outbound queue and    *)
(* the RequestSender worker.                                               *)
(*                                                                         *)
(* A std::string is a sequence of lexemes.  The double quote, the text     *)
(* private/ and the closing brace are lexemes of their own wherever they   *)
(* occur, so that find("\"private/") and rfind('}') on the characters are  *)
(* find and rfind on the lexemes.                                          *)
(***************************************************************************)

QUOTE == "\""
PRIVATE_NS == "private/"
CLOSE_BRACE == "}"

\* std::string::find(pat): the first position where pat occurs; 0 is npos
Find(text, pat) ==
    LET hits == { i \in 1 .. Len(text) - Len(pat) + 1 :
                    SubSeq(text, i, i + Len(pat) - 1) = pat }
    IN  IF hits = {} THEN 0
        ELSE CHOOSE i \in hits : \A j \in hits : i <= j

\* std::string::rfind(c): the last position of the character c; 0 is npos
RFind(text, c) ==
    LET hits == { i \in 1 .. Len(text) : text[i] = c }
    IN  IF hits = {} THEN 0
        ELSE CHOOSE i \in hits : \A j \in hits : j <= i

\* std::string::insert(pos, ins): ins goes in front of position pos
Insert(text, pos, ins) ==
    SubSeq(text, 1, pos - 1) \o ins \o SubSeq(text, pos, Len(text))

\* a send_rpc that formats every frame with the id of subscribe
SendRpcMsgFixedId(id, method, params) ==
    << "{\"jsonrpc\":\"2.0\",\"id\":", "1001", ",\"method\":", QUOTE >>
    \o method \o << QUOTE, ",\"params\":" >> \o params \o << CLOSE_BRACE >>

\* send_rpc, lines 411-412: the frame built from id, method and params_json
SendRpcMsg(id, method, params) ==
    << "{\"jsonrpc\":\"2.0\",\"id\":", ToString(id), ",\"method\":", QUOTE >>
    \o method \o << QUOTE, ",\"params\":" >> \o params \o << CLOSE_BRACE >>

\* subscribe, lines 384-391: the public/subscribe frame for a channel
SubscribeMsg(channel) ==
    << "{ \"jsonrpc\": \"2.0\", \"id\": 1001, \"method\": ", QUOTE,
       "public/", "subscribe", QUOTE,
       ", \"params\": { \"channels\": [", QUOTE >>
    \o channel \o << QUOTE, "] ", CLOSE_BRACE, " ", CLOSE_BRACE >>

\* method names the application passes to send_rpc
PublicPing == << "public/", "ping" >>
PrivateBuy == << PRIVATE_NS, "buy" >>

\* params_json texts the application passes: {} and {"memo":"private/x"}
EmptyParams == << "{", CLOSE_BRACE >>
MemoParams == << "{", "\"memo\":", QUOTE, PRIVATE_NS, "x", QUOTE, CLOSE_BRACE >>

\* the send_rpc calls of the model
Requests ==
    { [id |-> 1, method |-> PublicPing, params |-> EmptyParams],
      [id |-> 2, method |-> PrivateBuy, params |-> EmptyParams],
      [id |-> 3, method |-> PublicPing, params |-> MemoParams] }

\* the channel names the application passes to subscribe
SubChannels == { << "book.BTC-PERPETUAL.raw" >> }

SInit ==
    /\ f_pc = "idle"
    /\ f_ret = "none"
    /\ access_token = <<>>
    /\ s_rl = NewRateLimiter(0)
    /\ wire = <<>>
    /\ n_calls = 0
    /\ n_sub = 0
    /\ f_call = [kind |-> "none", id |-> 0, method |-> <<>>, params |-> <<>>]

\* "if (!rate_limiter.allow_request())" of send_rpc and subscribe: the
\* facade's limiter is queried at the current time; r is the outcome
GateQuery(r) ==
    /\ rl' = r.rl
    /\ rl_ok' = r.ok
    /\ n_ok' = IF r.ok THEN n_ok + 1 ELSE n_ok
    /\ n_allow' = n_allow + 1
    /\ t_first' = IF n_allow = 0 THEN now ELSE t_first
    /\ UNCHANGED now

\* send_rpc(id, method, params_json), lines 405-414: the gate; on denial
\* return false; else format the frame and start outbound_queue.push(msg)
SendRpcCall(id, method, params) ==
    /\ f_pc = "idle"
    /\ n_allow < MaxAllow
    /\ LET r == AllowRequest(rl, now)
       IN  /\ GateQuery(r)
           /\ IF r.ok
                THEN /\ PushBegin(App, SendRpcMsg(id, method, params))
                     /\ f_pc' = "send_rpc_push"
                     /\ f_ret' = "pending"
                ELSE /\ f_pc' = "idle"
                     /\ f_ret' = "false"
                     /\ UNCHANGED qvars
    /\ n_calls' = n_calls + 1
    /\ f_call' = [kind |-> "send_rpc", id |-> id, method |-> method,
                  params |-> params]
    /\ UNCHANGED <<access_token, s_rl, wire, n_sub>>

\* a send_rpc call of the application
SendRpcBegin(id, method, params) ==
    /\ SendRpcCall(id, method, params)
    /\ UNCHANGED <<cvars, dvars, hvars>>

\* send_rpc, lines 414-415: one step of outbound_queue.push(msg); after
\* the push, "return true"
SendRpcPushStep ==
    /\ f_pc = "send_rpc_push"
    /\ PushStep(App)
    /\ IF p_pc'[App] = "idle"
         THEN f_pc' = "idle" /\ f_ret' = "true"
         ELSE UNCHANGED <<f_pc, f_ret>>
    /\ UNCHANGED <<access_token, s_rl, wire, n_calls, n_sub, f_call>>
    /\ UNCHANGED hvars
    /\ UNCHANGED <<cvars, dvars, rvars>>

\* subscribe(channel), lines 377-393: the gate; on denial return; else
\* format the frame and start outbound_queue.push(msg)
SubscribeBegin(channel) ==
    /\ f_pc = "idle"
    /\ n_allow < MaxAllow
    /\ LET r == AllowRequest(rl, now)
       IN  /\ GateQuery(r)
           /\ IF r.ok
                THEN /\ PushBegin(App, SubscribeMsg(channel))
                     /\ f_pc' = "subscribe_push"
                ELSE /\ f_pc' = "idle"
                     /\ UNCHANGED qvars
    /\ n_calls' = n_calls + 1
    /\ n_sub' = n_sub + 1
    /\ f_call' = [kind |-> "subscribe", id |-> 0, method |-> <<>>,
                  params |-> channel]
    /\ UNCHANGED <<f_ret, access_token, s_rl, wire>>
    /\ UNCHANGED <<cvars, dvars, hvars>>

\* subscribe, line 393: one step of outbound_queue.push(msg)
SubscribePushStep ==
    /\ f_pc = "subscribe_push"
    /\ PushStep(App)
    /\ f_pc' = IF p_pc'[App] = "idle" THEN "idle" ELSE f_pc
    /\ UNCHANGED <<f_ret, access_token, s_rl, wire, n_calls, n_sub, f_call>>
    /\ UNCHANGED hvars
    /\ UNCHANGED <<cvars, dvars, rvars>>

\* the text R"(,"access_token":")" + token + "\"" that the Sender inserts
TokenSplice(token) == << ",\"access_token\":", QUOTE >> \o token \o << QUOTE >>

\* an injection that looks for private/ at the start of the method only
InjectMethodOnly(msg, token) ==
    IF Find(msg, << ",\"method\":", QUOTE, PRIVATE_NS >>) # 0 /\ token # <<>>
         /\ RFind(msg, CLOSE_BRACE) # 0
      THEN Insert(msg, RFind(msg, CLOSE_BRACE), TokenSplice(token))
      ELSE msg

\* an injection that does not test the token for emptiness
InjectEvenIfEmpty(msg, token) ==
    IF Find(msg, << QUOTE, PRIVATE_NS >>) # 0 /\ RFind(msg, CLOSE_BRACE) # 0
      THEN Insert(msg, RFind(msg, CLOSE_BRACE), TokenSplice(token))
      ELSE msg

\* RequestSender worker, lines 93-106: what is written for the queued text
\* msg when get_access_token() returns token
Inject(msg, token) ==
    IF Find(msg, << QUOTE, PRIVATE_NS >>) # 0
      THEN IF token # <<>>
             THEN LET pos == RFind(msg, CLOSE_BRACE)
                  IN  IF pos # 0 THEN Insert(msg, pos, TokenSplice(token))
                      ELSE msg
             ELSE msg
      ELSE msg

\* RequestSender::start, lines 74-77: running = true and the worker thread
\* is created
StartSender ==
    /\ s_pc = "not_started"
    /\ s_running' = TRUE
    /\ s_pc' = "loop"
    /\ UNCHANGED <<connected, r_running, shutting_down, a_pc, r_pc, dl_pc,
                   n_frames, dispatched>>
    /\ UNCHANGED <<qvars, dvars, rvars, svars, hvars>>

\* RequestSender worker, line 81: "while (running.load())"
SndLoopCheck ==
    /\ s_pc = "loop"
    /\ s_pc' = IF s_running THEN "gate" ELSE "exited"
    /\ UNCHANGED <<connected, r_running, s_running, shutting_down, a_pc,
                   r_pc, dl_pc, n_frames, dispatched>>
    /\ UNCHANGED <<qvars, dvars, rvars, svars, hvars>>

\* a Sender whose gate admits without taking a token
SndGateNoDebit ==
    /\ s_pc = "gate"
    /\ LET r == AllowRequestNoConsume(s_rl, now)
       IN  /\ s_rl' = r.rl
           /\ IF r.ok
                THEN PopBegin("pop") /\ s_pc' = "pop"
                ELSE UNCHANGED qvars /\ s_pc' = "gate"
    /\ UNCHANGED <<connected, r_running, s_running, shutting_down, a_pc,
                   r_pc, dl_pc, n_frames, dispatched>>
    /\ UNCHANGED <<f_pc, f_ret, access_token, wire, n_calls, n_sub, f_call>>
    /\ UNCHANGED hvars
    /\ UNCHANGED <<dvars, rvars>>

\* RequestSender worker, lines 83-87: "while (!rl.allow_request()) sleep";
\* once admitted, queue.pop() starts
SndGate ==
    /\ s_pc = "gate"
    /\ LET r == AllowRequest(s_rl, now)
       IN  /\ s_rl' = r.rl
           /\ IF r.ok
                THEN PopBegin("pop") /\ s_pc' = "pop"
                ELSE UNCHANGED qvars /\ s_pc' = "gate"
    /\ UNCHANGED <<connected, r_running, s_running, shutting_down, a_pc,
                   r_pc, dl_pc, n_frames, dispatched>>
    /\ UNCHANGED <<f_pc, f_ret, access_token, wire, n_calls, n_sub, f_call>>
    /\ UNCHANGED hvars
    /\ UNCHANGED <<dvars, rvars>>

\* RequestSender worker, lines 87-88: one step of queue.pop();
\* "if (!req) continue"
SndPopStep ==
    /\ s_pc = "pop"
    /\ PopStep
    /\ s_pc' = IF c_pc' # "idle" THEN "pop"
               ELSE IF pop_ret' = "nullopt" THEN "loop" ELSE "send"
    /\ UNCHANGED <<connected, r_running, s_running, shutting_down, a_pc,
                   r_pc, dl_pc, n_frames, dispatched>>
    /\ UNCHANGED <<dvars, rvars, svars, hvars>>

\* a Sender that hands the newest frame to the transport ahead of the
\* frames it wrote before
SndSendFront ==
    /\ s_pc = "send"
    /\ wire' = << Inject(c_v, access_token) >> \o wire
    /\ s_pc' = "loop"
    /\ UNCHANGED <<connected, r_running, s_running, shutting_down, a_pc,
                   r_pc, dl_pc, n_frames, dispatched>>
    /\ UNCHANGED <<f_pc, f_ret, access_token, s_rl, n_calls, n_sub, f_call>>
    /\ UNCHANGED hvars
    /\ UNCHANGED <<qvars, dvars, rvars>>

\* RequestSender worker, lines 90-108: the token injection and ws.send(msg)
SndSend ==
    /\ s_pc = "send"
    /\ wire' = Append(wire, Inject(c_v, access_token))
    /\ s_pc' = "loop"
    /\ UNCHANGED <<connected, r_running, s_running, shutting_down, a_pc,
                   r_pc, dl_pc, n_frames, dispatched>>
    /\ UNCHANGED <<f_pc, f_ret, access_token, s_rl, n_calls, n_sub, f_call>>
    /\ UNCHANGED hvars
    /\ UNCHANGED <<qvars, dvars, rvars>>

\* the texts authenticate() passes to send_rpc
PublicAuth == << "public/", "auth" >>
AuthParams ==
    << "{\"grant_type\":\"client_credentials\",\"client_id\":", QUOTE,
       "id", QUOTE, ",\"client_secret\":", QUOTE, "secret", QUOTE,
       CLOSE_BRACE >>

\* authenticate(), lines 311-340: register_rpc(AUTH_ID, on_success,
\* on_error, this)
AuthRegister ==
    /\ a_pc = "constructed"
    /\ f_pc = "idle"
    /\ rpc_handler' = [rpc_handler EXCEPT ![RpcSlot(AUTH_ID)] =
                          [on_success |-> AuthSuccessFn,
                           on_error |-> AuthErrorFn,
                           user_data |-> AuthUserData]]
    /\ d_clean' = (d_clean /\ ~RacesWithDispatch(RpcSlot(AUTH_ID)))
    /\ a_pc' = "authenticate"
    /\ UNCHANGED <<connected, r_running, s_running, shutting_down, r_pc,
                   s_pc, dl_pc, n_frames, dispatched>>
    /\ UNCHANGED <<sub_handler, d_pc, frame, pm, calls, reg_pc, reg, n_reg,
                   n_subreg, sub_regd, reg_done, reg_count>>
    /\ UNCHANGED <<qvars, rvars, svars, hvars>>

\* authenticate(), lines 343-348: send_rpc(AUTH_ID, "public/auth", params)
AuthSend ==
    /\ a_pc = "authenticate"
    /\ a_pc' = "connected"
    /\ SendRpcCall(AUTH_ID, PublicAuth, AuthParams)
    /\ UNCHANGED <<connected, r_running, s_running, shutting_down, r_pc,
                   s_pc, dl_pc, n_frames, dispatched>>
    /\ UNCHANGED <<dvars, hvars>>

----------------------------------------------------------------------------
(***************************************************************************)
(* fetch_n_ohlcv (historical_ohlcv.h)                                      *)
(***************************************************************************)

\* "constexpr size_t CHUNK_SIZE = 1000", scaled down
ChunkSize == 2

\* the largest n_candles a call is made with
MaxN == 3

\* system_clock::now() in milliseconds at the time of the call, scaled to
\* the integers of the model
NowMs == 1700000000

\* "sleep_for(milliseconds(200))" after a denied send_rpc, and the
\* "seconds(5)" of cv.wait_for
RetrySleepMs == 200
WaitTimeoutMs == 5000

Instrument == "BTC-PERPETUAL"

ChartData == << "public/", "get_tradingview_chart_data" >>

\* fetch_n_ohlcv, lines 128-132: the params text of a request
ChartParams(res, start_ts, end_ts) ==
    << "{", "\"instrument_name\":", QUOTE, Instrument, QUOTE,
       ",\"resolution\":", QUOTE, res, QUOTE,
       ",\"start_timestamp\":", ToString(start_ts),
       ",\"end_timestamp\":", ToString(end_ts), CLOSE_BRACE >>

\* the frame send_rpc formats for a request of the fetcher
ChartRequest(q) ==
    SendRpcMsg(RPC_ID, ChartData, ChartParams(q.res, q.start_ts, q.end_ts))

HInit ==
    /\ h_pc = "idle"
    /\ h_n = 0
    /\ h_res = "1"
    /\ out = <<>>
    /\ done = FALSE
    /\ current_end_ts = 0
    /\ current_start_ts = 0
    /\ last_size = 0
    /\ h_ret = <<>>
    /\ h_reqs = <<>>
    /\ h_answered = 0
    /\ h_recv = <<>>
    /\ h_uaf = FALSE

\* std::ranges::sort(out, a.ts_ms < b.ts_ms): insertion of x into a sorted
\* sequence, and the sorted sequence
RECURSIVE InsertSorted(_, _)
InsertSorted(sq, x) ==
    IF sq = <<>> THEN << x >>
    ELSE IF x < Head(sq) THEN << x >> \o sq
    ELSE << Head(sq) >> \o InsertSorted(Tail(sq), x)

RECURSIVE SortByTs(_)
SortByTs(sq) ==
    IF sq = <<>> THEN <<>>
    ELSE InsertSorted(SortByTs(SubSeq(sq, 1, Len(sq) - 1)), sq[Len(sq)])

\* a trim that drops the newest excess
TrimNewest(sq, n) == IF Len(sq) > n THEN SubSeq(sq, 1, n) ELSE sq

\* lines 158-160: out.erase(out.begin(), out.begin() + (out.size() - n))
TrimOldest(sq, n) ==
    IF Len(sq) > n THEN SubSeq(sq, Len(sq) - n + 1, Len(sq)) ELSE sq

\* a batch that is always a full chunk
BatchSizeFullChunk == ChunkSize

\* lines 111-113: batch_size = min(n_candles - out.size(), CHUNK_SIZE)
BatchSize == Min(h_n - Len(out), ChunkSize)

\* fetch_n_ohlcv is called, lines 90-107
FetchCall(n, res) ==
    /\ h_pc = "idle"
    /\ h_n' = n
    /\ h_res' = res
    /\ out' = <<>>
    /\ done' = FALSE
    /\ current_end_ts' = NowMs
    /\ last_size' = 0
    /\ h_pc' = "loop"
    /\ UNCHANGED <<current_start_ts, h_ret, h_reqs, h_answered, h_recv, h_uaf>>
    /\ UNCHANGED <<qvars, cvars, dvars, rvars, svars>>

\* a loop that runs its body before it tests the size
FetchLoopCheckBodyFirst ==
    /\ h_pc = "loop"
    /\ h_pc' = IF Len(out) < h_n \/ h_reqs = <<>> THEN "register" ELSE "sort"
    /\ UNCHANGED <<h_n, h_res, out, done, current_end_ts, current_start_ts,
                   last_size, h_ret, h_reqs, h_answered, h_recv, h_uaf>>
    /\ UNCHANGED <<qvars, cvars, dvars, rvars, svars>>

\* line 109: "while (out.size() < n_candles)"
FetchLoopCheck ==
    /\ h_pc = "loop"
    /\ h_pc' = IF Len(out) < h_n THEN "register" ELSE "sort"
    /\ UNCHANGED <<h_n, h_res, out, done, current_end_ts, current_start_ts,
                   last_size, h_ret, h_reqs, h_answered, h_recv, h_uaf>>
    /\ UNCHANGED <<qvars, cvars, dvars, rvars, svars>>

\* lines 111-126: the window of the batch, done = false under the mutex,
\* register_rpc(RPC_ID, on_ohlcv_success, on_ohlcv_error, &ctx)
FetchRegister ==
    /\ h_pc = "register"
    /\ current_start_ts' = current_end_ts - (BatchSize - 1) * ResMs(h_res)
    /\ done' = FALSE
    /\ rpc_handler' = [rpc_handler EXCEPT ![RpcSlot(RPC_ID)] =
                          [on_success |-> OhlcvSuccessFn,
                           on_error |-> OhlcvErrorFn,
                           user_data |-> OhlcvContext]]
    /\ d_clean' = (d_clean /\ ~RacesWithDispatch(RpcSlot(RPC_ID)))
    /\ h_pc' = "send"
    /\ UNCHANGED <<h_n, h_res, out, current_end_ts, last_size, h_ret, h_reqs,
                   h_answered, h_recv, h_uaf>>
    /\ UNCHANGED <<sub_handler, d_pc, frame, pm, calls, reg_pc, reg, n_reg,
                   n_subreg, sub_regd, reg_done, reg_count>>
    /\ UNCHANGED <<qvars, cvars, rvars, svars>>

\* lines 128-135: the params and the send_rpc call; a denied call returns
\* false at once
FetchSend ==
    /\ h_pc = "send"
    /\ SendRpcCall(RPC_ID, ChartData,
                   ChartParams(h_res, current_start_ts, current_end_ts))
    /\ IF rl_ok'
         THEN /\ h_pc' = "sending"
              /\ h_reqs' = Append(h_reqs,
                              [start_ts |-> current_start_ts,
                               end_ts |-> current_end_ts,
                               batch |-> ((current_end_ts - current_start_ts)
                                            \div ResMs(h_res)) + 1,
                               res |-> h_res])
         ELSE /\ h_pc' = "sleep"
              /\ UNCHANGED h_reqs
    /\ UNCHANGED <<h_n, h_res, out, done, current_end_ts, current_start_ts,
                   last_size, h_ret, h_answered, h_recv, h_uaf>>
    /\ UNCHANGED <<cvars, dvars>>

\* line 135: send_rpc has returned true
FetchSendReturn ==
    /\ h_pc = "sending"
    /\ f_pc = "idle"
    /\ h_pc' = "wait"
    /\ UNCHANGED <<h_n, h_res, out, done, current_end_ts, current_start_ts,
                   last_size, h_ret, h_reqs, h_answered, h_recv, h_uaf>>
    /\ UNCHANGED <<qvars, cvars, dvars, rvars, svars>>

\* a retry that moves the window on as if the batch had been answered
FetchSleepAdvance ==
    /\ h_pc = "sleep"
    /\ now' = now + RetrySleepMs
    /\ h_pc' = "loop"
    /\ current_end_ts' = current_start_ts - 1
    /\ UNCHANGED <<rl, rl_ok, n_allow, n_ok, t_first>>
    /\ UNCHANGED <<h_n, h_res, out, done, current_start_ts,
                   last_size, h_ret, h_reqs, h_answered, h_recv, h_uaf>>
    /\ UNCHANGED <<qvars, cvars, dvars, svars>>

\* lines 136-137: sleep 200 ms, then "continue"
FetchSleep ==
    /\ h_pc = "sleep"
    /\ now' = now + RetrySleepMs
    /\ h_pc' = "loop"
    /\ UNCHANGED <<rl, rl_ok, n_allow, n_ok, t_first>>
    /\ UNCHANGED <<h_n, h_res, out, done, current_end_ts, current_start_ts,
                   last_size, h_ret, h_reqs, h_answered, h_recv, h_uaf>>
    /\ UNCHANGED <<qvars, cvars, dvars, svars>>

\* lines 141-143: cv.wait_for returns with done set
FetchWaitDone ==
    /\ h_pc = "wait"
    /\ done
    /\ h_pc' = "compare"
    /\ UNCHANGED <<h_n, h_res, out, done, current_end_ts, current_start_ts,
                   last_size, h_ret, h_reqs, h_answered, h_recv, h_uaf>>
    /\ UNCHANGED <<qvars, cvars, dvars, rvars, svars>>

\* a timeout exit that clears the slot of RPC_ID before it breaks
FetchWaitTimeoutUnregister ==
    /\ h_pc = "wait"
    /\ ~done
    /\ now' = now + WaitTimeoutMs
    /\ h_pc' = "sort"
    /\ rpc_handler' = [rpc_handler EXCEPT ![RpcSlot(RPC_ID)] = NullHandler]
    /\ UNCHANGED <<rl, rl_ok, n_allow, n_ok, t_first>>
    /\ UNCHANGED <<h_n, h_res, out, done, current_end_ts, current_start_ts,
                   last_size, h_ret, h_reqs, h_answered, h_recv, h_uaf>>
    /\ UNCHANGED <<sub_handler, d_pc, frame, pm, calls, reg_pc, reg, n_reg,
                   n_subreg, sub_regd, reg_done, reg_count, d_clean>>
    /\ UNCHANGED <<qvars, cvars, svars>>

\* lines 141-143: five seconds pass with done not set: "break"
FetchWaitTimeout ==
    /\ h_pc = "wait"
    /\ ~done
    /\ now' = now + WaitTimeoutMs
    /\ h_pc' = "sort"
    /\ UNCHANGED <<rl, rl_ok, n_allow, n_ok, t_first>>
    /\ UNCHANGED <<h_n, h_res, out, done, current_end_ts, current_start_ts,
                   last_size, h_ret, h_reqs, h_answered, h_recv, h_uaf>>
    /\ UNCHANGED <<qvars, cvars, dvars, svars>>

\* lines 145-149: no new candle: "break"; else remember the size and move
\* the window
FetchCompare ==
    /\ h_pc = "compare"
    /\ IF Len(out) = last_size
         THEN /\ h_pc' = "sort"
              /\ UNCHANGED <<last_size, current_end_ts>>
         ELSE /\ h_pc' = "loop"
              /\ last_size' = Len(out)
              /\ current_end_ts' = current_start_ts - 1
    /\ UNCHANGED <<h_n, h_res, out, done, current_start_ts, h_ret, h_reqs,
                   h_answered, h_recv, h_uaf>>
    /\ UNCHANGED <<qvars, cvars, dvars, rvars, svars>>

\* lines 153-155: std::ranges::sort(out, by ts_ms)
FetchSort ==
    /\ h_pc = "sort"
    /\ out' = SortByTs(out)
    /\ h_pc' = "trim"
    /\ UNCHANGED <<h_n, h_res, done, current_end_ts, current_start_ts,
                   last_size, h_ret, h_reqs, h_answered, h_recv, h_uaf>>
    /\ UNCHANGED <<qvars, cvars, dvars, rvars, svars>>

\* lines 158-162: the final trim and "return out"
FetchTrim ==
    /\ h_pc = "trim"
    /\ out' = TrimOldest(out, h_n)
    /\ h_ret' = out'
    /\ h_pc' = "returned"
    /\ UNCHANGED <<h_n, h_res, done, current_end_ts, current_start_ts,
                   last_size, h_reqs, h_answered, h_recv, h_uaf>>
    /\ UNCHANGED <<qvars, cvars, dvars, rvars, svars>>

\* the server answers the oldest request it has not answered, once the
\* Sender has written it, with a result or with an error, and the dispatcher
\* thread dispatches the response
ChartReplies ==
    { Frame(TRUE, "uint", RPC_ID, "absent", "absent", "value", "absent",
            "absent", <<>>, "absent"),
      Frame(TRUE, "uint", RPC_ID, "absent", "value", "absent", "absent",
            "absent", <<>>, "absent") }

ServerReply ==
    /\ d_pc \in {"idle", "done"}
    /\ h_answered < Len(h_reqs)
    /\ \E i \in 1 .. Len(wire) : wire[i] = ChartRequest(NextRequest)
    /\ \E f \in ChartReplies : DispatchBegin(f)

----------------------------------------------------------------------------
(***************************************************************************)
(* SpecQ: one queue, one producer thread, one consumer thread.             *)
(***************************************************************************)

\* the producer calls push with the values 1, 2, 3, ...
ProducerPush ==
    /\ n_push < MaxPush
    /\ PushBegin(Receiver, n_push + 1)
    /\ UNCHANGED <<cvars, dvars, rvars, svars, hvars>>

ProducerStep == PushStep(Receiver) /\ UNCHANGED <<cvars, dvars, rvars, svars, hvars>>

ConsumerPop == PopBegin("pop") /\ UNCHANGED <<cvars, dvars, rvars, svars, hvars>>

ConsumerWaitAndPop == PopBegin("wap_fast") /\ UNCHANGED <<cvars, dvars, rvars, svars, hvars>>

ConsumerStep == PopStep /\ UNCHANGED <<cvars, dvars, rvars, svars, hvars>>

ConsumerSpuriousWake == SpuriousWake /\ UNCHANGED <<cvars, dvars, rvars, svars, hvars>>

InitQ == QInit /\ CInit /\ DInit /\ RInit /\ SInit /\ HInit

NextQ ==
    \/ ProducerPush
    \/ ProducerStep
    \/ ConsumerPop
    \/ ConsumerWaitAndPop
    \/ ConsumerStep
    \/ ConsumerSpuriousWake

SpecQ == InitQ /\ [][NextQ]_vars

----------------------------------------------------------------------------
(***************************************************************************)
(* SpecClient: a client that connects, receives frames and is closed.      *)
(***************************************************************************)

InitClient == QInit /\ CInit /\ DInit /\ RInit /\ SInit /\ HInit

NextClient ==
    \/ Connect
    \/ RecvLoopCheck
    \/ RecvReadFrame
    \/ RecvReadEmpty
    \/ RecvPushStep
    \/ SenderIterate
    \/ SenderIterEnd
    \/ SenderExit
    \/ DlWaitAndPop
    \/ DlPopStep
    \/ DlGot
    \/ CloseStoreFlag
    \/ ClosePushBegin
    \/ ClosePushStep
    \/ CloseRequestStop
    \/ CloseStopSender
    \/ CloseStopReceiver
    \/ CloseJoinReceiver
    \/ CloseJoinDispatcher
    \/ RecloseStoreFlag
    \/ ReclosePushBegin
    \/ ReclosePushStep
    \/ RecloseRequestStop
    \/ RecloseStopSender
    \/ RecloseStopReceiver
    \/ RecloseJoinDispatcher

SpecClient == InitClient /\ [][NextClient]_vars

\* Fair scheduling: a thread that can take a step eventually takes one. A
\* thread blocked in cv_.wait, in ws.read() or in join() has no step to take;
\* a wake-up without a notification is possible and not promised, and the
\* application is not obliged to call close().
ReceiverThread == RecvLoopCheck \/ RecvReadFrame \/ RecvReadEmpty \/ RecvPushStep

SenderThread == SenderIterate \/ SenderIterEnd \/ SenderExit

DispatcherThread == DlWaitAndPop \/ (c_pc # "blocked" /\ DlPopStep) \/ DlGot

CloseCall ==
    \/ ClosePushBegin
    \/ ClosePushStep
    \/ CloseRequestStop
    \/ CloseStopSender
    \/ CloseStopReceiver
    \/ CloseJoinReceiver
    \/ CloseJoinDispatcher

RecloseCall ==
    \/ ReclosePushBegin
    \/ ReclosePushStep
    \/ RecloseRequestStop
    \/ RecloseStopSender
    \/ RecloseStopReceiver
    \/ RecloseJoinDispatcher

FairClient ==
    /\ WF_vars(Connect)
    /\ WF_vars(ReceiverThread)
    /\ WF_vars(SenderThread)
    /\ WF_vars(DispatcherThread)
    /\ WF_vars(CloseCall)
    /\ WF_vars(RecloseCall)

SpecClientFair == InitClient /\ [][NextClient]_vars /\ FairClient

----------------------------------------------------------------------------
(***************************************************************************)
(* SpecDisp: one thread dispatches frames while another registers          *)
(* handlers.                                                               *)
(***************************************************************************)

InitDisp == QInit /\ CInit /\ DInit /\ RInit /\ SInit /\ HInit

NextDisp ==
    \/ \E f \in Frames : DispatchBegin(f)
    \/ DispatchRpcCall
    \/ DispatchSub
    \/ \E id \in Ids, s_set \in BOOLEAN, e_set \in BOOLEAN :
          RegisterRpcBegin(id, s_set, e_set)
    \/ RegStoreError
    \/ RegStoreUserData
    \/ \E c \in Channels : RegisterSubscription(c)

SpecDisp == InitDisp /\ [][NextDisp]_vars

----------------------------------------------------------------------------
(***************************************************************************)
(* SpecRL: one rate limiter queried as time passes.                        *)
(***************************************************************************)

\* the clock steps of the model, in milliseconds
Steps == {50, 300}

InitRL == QInit /\ CInit /\ DInit /\ RInit /\ SInit /\ HInit

NextRL ==
    \/ \E dt \in Steps : Tick(dt)
    \/ CallAllowRequest

SpecRL == InitRL /\ [][NextRL]_vars

----------------------------------------------------------------------------
(***************************************************************************)
(* SpecGate: the application calls send_rpc and subscribe on a client      *)
(* whose Sender is not draining the outbound queue, as time passes.        *)
(***************************************************************************)

InitGate == QInit /\ CInit /\ DInit /\ RInit /\ SInit /\ HInit

\* the send_rpc call the application repeats
GateRequests == { q \in Requests : q.id = 2 }

\* the clock advances while the calls are made
GateTick == \E dt \in Steps : now + dt <= MaxGateTime /\ Tick(dt)

NextGate ==
    \/ \E q \in GateRequests : SendRpcBegin(q.id, q.method, q.params)
    \/ SendRpcPushStep
    \/ \E c \in SubChannels : SubscribeBegin(c)
    \/ SubscribePushStep
    \/ GateTick

SpecGate == InitGate /\ [][NextGate]_vars

----------------------------------------------------------------------------
(***************************************************************************)
(* SpecSend: the application authenticates and submits requests, the       *)
(* Sender drains the outbound queue, and the dispatcher handles the        *)
(* responses to the auth request.                                          *)
(***************************************************************************)

InitSend == QInit /\ CInit /\ DInit /\ RInit /\ SInit /\ HInit

\* responses the server may send: the auth success and the auth error, a
\* success on an id that shares the slot of AUTH_ID, successes and an error
\* on another id
AuthFrames ==
    { Frame(TRUE, "uint", AUTH_ID, "absent", "absent", "tok-xyz", "absent",
            "absent", <<>>, "absent"),
      Frame(TRUE, "uint", AUTH_ID, "absent", "value", "absent", "absent",
            "absent", <<>>, "absent"),
      Frame(TRUE, "uint", AUTH_ID, "absent", "absent", "value", "absent",
            "absent", <<>>, "absent"),
      Frame(TRUE, "uint", AUTH_ID + MAX_INFLIGHT, "absent", "absent",
            "tok-abc", "absent", "absent", <<>>, "absent"),
      Frame(TRUE, "uint", 1, "absent", "absent", "tok-abc", "absent",
            "absent", <<>>, "absent") }

\* the send_rpc calls the application makes: a private method, and a
\* public method whose params mention private/
SendRequests == { q \in Requests : q.id # 1 }

\* a send_rpc or subscribe call of the application, at most MaxCalls of them
AppSendRpc ==
    /\ n_calls < MaxCalls
    /\ \E q \in SendRequests : SendRpcBegin(q.id, q.method, q.params)

AppSubscribe ==
    /\ n_calls < MaxCalls
    /\ \E c \in SubChannels : SubscribeBegin(c)

\* the responses to the auth request: success with a token, and error
AuthReplies == { f \in AuthFrames : f.id = AUTH_ID /\ f.result # "value" }

\* the auth request as send_rpc formats it
AuthRequest == SendRpcMsg(AUTH_ID, PublicAuth, AuthParams)

\* the server answers the auth request once it has been written to the
\* transport, and the dispatcher thread dispatches the response
AuthDispatch ==
    /\ d_pc = "idle"
    /\ \E i \in 1 .. Len(wire) : wire[i] = AuthRequest
    /\ \E f \in AuthReplies : DispatchBegin(f)

NextSend ==
    \/ StartSender
    \/ AuthRegister
    \/ AuthSend
    \/ AppSendRpc
    \/ SendRpcPushStep
    \/ AppSubscribe
    \/ SubscribePushStep
    \/ SndLoopCheck
    \/ SndGate
    \/ SndPopStep
    \/ SndSend
    \/ AuthDispatch
    \/ DispatchRpcCall

SpecSend == InitSend /\ [][NextSend]_vars

----------------------------------------------------------------------------
(***************************************************************************)
(* SpecAuth: the client authenticates while the dispatcher thread          *)
(* dispatches whatever responses arrive.                                   *)
(***************************************************************************)

InitAuth == QInit /\ CInit /\ DInit /\ RInit /\ SInit /\ HInit

\* a response arrives and the dispatcher thread dispatches it
AnyDispatch == \E f \in AuthFrames : DispatchBegin(f)

NextAuth ==
    \/ AuthRegister
    \/ AuthSend
    \/ SendRpcPushStep
    \/ AnyDispatch
    \/ DispatchRpcCall

SpecAuth == InitAuth /\ [][NextAuth]_vars

\* fetch_n_ohlcv called once on a connected client whose Sender runs; the
\* gate of send_rpc is full or has just been drained by earlier calls
DrainedRateLimiter(t) == [tokens |-> 0, last_refill |-> t]

InitFetch ==
    /\ QInit /\ CInit /\ DInit /\ SInit /\ HInit
    /\ now = 0
    /\ rl \in {NewRateLimiter(0), DrainedRateLimiter(0)}
    /\ rl_ok = TRUE
    /\ n_allow = 0
    /\ n_ok = 0
    /\ t_first = 0

NextFetch ==
    \/ StartSender
    \/ \E n \in 0 .. MaxN, res \in Resolutions : FetchCall(n, res)
    \/ FetchLoopCheck
    \/ FetchRegister
    \/ FetchSend
    \/ SendRpcPushStep
    \/ FetchSendReturn
    \/ FetchSleep
    \/ FetchWaitDone
    \/ FetchWaitTimeout
    \/ FetchCompare
    \/ FetchSort
    \/ FetchTrim
    \/ SndLoopCheck
    \/ SndGate
    \/ SndPopStep
    \/ SndSend
    \/ ServerReply
    \/ DispatchRpcCall

SpecFetch == InitFetch /\ [][NextFetch]_vars

\* the server may also answer with a frame that carries the id and neither
\* a result nor an error
ServerReplyNoResult ==
    /\ d_pc \in {"idle", "done"}
    /\ h_answered < Len(h_reqs)
    /\ \E i \in 1 .. Len(wire) : wire[i] = ChartRequest(NextRequest)
    /\ DispatchBegin(Frame(TRUE, "uint", RPC_ID, "absent", "absent",
                           "absent", "absent", "absent", <<>>, "absent"))

\* the outbound queue before any push: SPSCQueue<std::string, N> holds N
\* default-constructed (empty) strings
QInitText ==
    /\ buffer = [i \in 0 .. N - 1 |-> <<>>]
    /\ head = 0
    /\ tail = 0
    /\ p_pc = [t \in Pushers |-> "idle"]
    /\ p_h = [t \in Pushers |-> 0]
    /\ p_v = [t \in Pushers |-> <<>>]
    /\ push_ret = [t \in Pushers |-> "none"]
    /\ c_pc = "idle"
    /\ c_mode = "pop"
    /\ c_t = 0
    /\ c_v = <<>>
    /\ pop_ret = "none"
    /\ pushed = <<>>
    /\ popped = <<>>
    /\ n_push = 0

InitFetchText ==
    /\ QInitText /\ CInit /\ DInit /\ SInit /\ HInit
    /\ now = 0
    /\ rl \in {NewRateLimiter(0), DrainedRateLimiter(0)}
    /\ rl_ok = TRUE
    /\ n_allow = 0
    /\ n_ok = 0
    /\ t_first = 0

NextFetchAny == NextFetch \/ ServerReplyNoResult

\* the thread that called fetch_n_ohlcv keeps running: every step of the
\* function, of the send_rpc it calls, its sleep and its timed wait
FetchThread ==
    \/ FetchLoopCheck
    \/ FetchRegister
    \/ FetchSend
    \/ SendRpcPushStep
    \/ FetchSendReturn
    \/ FetchSleep
    \/ FetchWaitDone
    \/ FetchWaitTimeout
    \/ FetchCompare
    \/ FetchSort
    \/ FetchTrim

\* every step of FetchThread changes h_pc or p_pc
fvars == <<h_pc, p_pc>>

SpecFetchFair ==
    InitFetchText /\ [][NextFetchAny]_vars /\ WF_fvars(FetchThread)

----------------------------------------------------------------------------
(***************************************************************************)
(* Properties of the SPSC queue (checked under SpecQ).                     *)
(***************************************************************************)

\* s is a prefix of t
IsPrefix(s, t) ==
    /\ Len(s) <= Len(t)
    /\ \A i \in 1 .. Len(s) : s[i] = t[i]

\* C1: with one producer and one consumer, under every interleaving the
\* values returned by successful pops are a prefix of the values accepted by
\* successful pushes: same order, nothing lost, nothing duplicated.
C1_FifoPrefix == IsPrefix(popped, pushed)

\* C1 witness: more values than the ring has slots went through the queue,
\* so the indices wrapped around
C1_Witness == Len(popped) > N /\ popped = pushed

\* C2: in every reachable state the number of stored elements is
\* (head - tail) mod N and is at most N - 1.
C2_StoredAtMostNMinus1 ==
    /\ Stored = (head - tail + N) % N
    /\ Stored <= N - 1

\* C2 witness: the queue is full, N - 1 elements stored
C2_Witness == Stored = N - 1 /\ p_pc[Receiver] = "idle"

\* C3: push returns false exactly when the queue holds N - 1 elements at its
\* full check, and a push that returns false changes neither head, tail nor
\* the buffer; pop returns the empty option exactly when the queue holds no
\* element at its empty check, and then changes nothing of the queue.
C3_FailIffFullOrEmpty ==
    [][ /\ \A t \in Pushers :
             /\ (p_pc[t] = "idle" /\ p_pc'[t] = "check")
                   => UNCHANGED <<buffer, head, tail>>
             /\ (p_pc[t] = "check" /\ p_pc'[t] # "check")
                   => /\ (push_ret'[t] = "false") <=> (Stored = N - 1)
                      /\ (push_ret'[t] = "false")
                            => (p_pc'[t] = "idle" /\ UNCHANGED <<buffer, head, tail>>)
                      /\ (push_ret'[t] # "false") => p_pc'[t] = "store_buf"
        /\ (c_pc = "idle" /\ c_pc' = "pop_check")
              => UNCHANGED <<buffer, head, tail>>
        /\ (c_pc = "pop_check" /\ c_mode = "pop" /\ c_pc' # "pop_check")
              => /\ (pop_ret' = "nullopt") <=> (Stored = 0)
                 /\ (pop_ret' = "nullopt")
                       => (c_pc' = "idle" /\ UNCHANGED <<buffer, head, tail>>)
                 /\ (pop_ret' # "nullopt") => c_pc' = "pop_read"
      ]_vars

\* C3 witness: a push has returned false and a pop has returned the empty
\* option
C3_Witness == push_ret[Receiver] = "false" /\ pop_ret = "nullopt"

\* C4: a consumer blocked in wait_and_pop is not left blocked once the
\* producer has completed a successful push: whenever the producer is outside
\* push after a successful push and the queue holds an element, the consumer
\* is not blocked on the condition variable.
C4_NoLostWakeup ==
    ~ ( /\ c_pc = "blocked"
        /\ ~QueueEmpty(tail, head)
        /\ p_pc[Receiver] = "idle"
        /\ push_ret[Receiver] = "true" )

----------------------------------------------------------------------------
(***************************************************************************)
(* Properties of the client's inbound queue (checked under SpecClient).    *)
(***************************************************************************)

\* C5: once the client has been connected, in every reachable state at most
\* one thread is executing push on the inbound queue and that thread is the
\* Receiver; the sentinel push of close() never overlaps a push of the
\* Receiver.
C5_OnlyReceiverPushes ==
    a_pc # "constructed" =>
        /\ \A t \in Pushers : p_pc[t] # "idle" => t = Receiver
        /\ ~(p_pc[App] # "idle" /\ p_pc[Receiver] # "idle")

----------------------------------------------------------------------------
(***************************************************************************)
(* Properties of the dispatcher (checked under SpecDisp).                  *)
(***************************************************************************)

\* the dispatch of a frame with an unsigned id has returned, and no
\* register_rpc wrote the frame's slot since the dispatch began
RpcDone == d_pc = "done" /\ frame.ok /\ frame.id_kind = "uint" /\ d_clean

\* the dispatch of a well-formed notification has returned, and no
\* register_subscription wrote the channel's slot since the dispatch began
SubDone ==
    /\ d_pc = "done" /\ frame.ok /\ frame.id_kind # "uint"
    /\ frame.method = "subscription" /\ frame.params = "object"
    /\ frame.chan_kind = "string" /\ frame.data # "absent"
    /\ d_clean

\* C6, as claimed: for a dispatched frame with an unsigned id u, if the slot
\* rpc_table[u & 4095] has at least one continuation set, exactly one of the
\* slot's on_success / on_error is invoked, never both and never neither.
C6_ExactlyOneIfAnySet ==
    RpcDone =>
        LET h == rpc_handler[frame.id % 4096]
        IN  (h.on_success # 0 \/ h.on_error # 0) =>
                /\ Len(calls) = 1
                /\ calls[1].fn \in {h.on_success, h.on_error}
                /\ calls[1].fn # 0

\* C6, amended: for a dispatched frame with an unsigned id u, dispatch
\* invokes only the continuation that matches the frame, on_error when the
\* error field is present and not null and on_success otherwise: exactly
\* once, with the slot's user data, when that continuation is set, and not
\* at all when it is null, whether or not the other continuation is set.
C6_MatchingContinuationOnly ==
    RpcDone =>
        LET h == rpc_handler[frame.id % 4096]
            fn == IF frame.error = "value" THEN h.on_error ELSE h.on_success
        IN  /\ Len(calls) <= 1
            /\ (Len(calls) = 1) <=> (fn # 0)
            /\ Len(calls) = 1 =>
                  /\ calls[1].fn = fn
                  /\ calls[1].ud = h.user_data
                  /\ calls[1].pm.is_error = (frame.error = "value")

\* C6 witness: an error response arrived for a slot with both continuations
\* set, and on_error alone was invoked
C6_Witness ==
    /\ RpcDone /\ frame.error = "value"
    /\ rpc_handler[frame.id % 4096].on_success # 0
    /\ Len(calls) = 1 /\ calls[1].kind = "on_error"

\* C7: for a dispatched frame without an id whose method is "subscription"
\* and whose params carry a string channel c and a data value, if
\* sub_table[fnv1a(c) & 4095] holds a handler then that handler is invoked
\* exactly once, with pm.channel = c and pm.data = the raw data value.
C7_SubscriptionHandlerOnce ==
    (SubDone /\ sub_handler[SubIdx(frame.channel)] # 0) =>
        /\ Len(calls) = 1
        /\ calls[1].kind = "sub"
        /\ calls[1].fn = sub_handler[SubIdx(frame.channel)]
        /\ calls[1].pm.channel = frame.channel
        /\ calls[1].pm.data = frame.data

\* C7 witness: a notification on channel "aid" was delivered to a handler
C7_Witness ==
    /\ SubDone /\ frame.id_kind = "absent"
    /\ frame.channel = <<97, 105, 100>>
    /\ Len(calls) = 1 /\ calls[1].pm.data = "D"

\* C8: dispatch invokes at most one handler per frame: a frame with an
\* (unsigned) id is routed only to the RPC table, even if its method is
\* "subscription"; a frame without one whose method is "subscription" only
\* to the subscription table; any other frame, and a frame that fails to
\* parse, invokes no handler.
C8_AtMostOneHandler ==
    /\ Len(calls) <= 1
    /\ \A i \in 1 .. Len(calls) :
          /\ frame.ok
          /\ IF frame.id_kind = "uint"
               THEN calls[i].kind \in {"on_success", "on_error"}
               ELSE frame.method = "subscription" /\ calls[i].kind = "sub"

\* C8 witness: a frame with an id, method "subscription" and full params
\* was routed to the RPC table only, although a handler is registered for
\* its channel
C8_Witness ==
    /\ d_pc = "done" /\ frame.id_kind = "uint"
    /\ frame.method = "subscription" /\ frame.chan_kind = "string"
    /\ sub_handler[SubIdx(frame.channel)] # 0
    /\ Len(calls) = 1 /\ calls[1].kind = "on_success"

\* C9: after a register_rpc has completed over an earlier register_rpc on
\* the same slot, a frame with that id dispatched afterwards invokes only
\* the continuations of the later call, with its user data; those of the
\* earlier call are not invoked again.
C9_NoStaleAfterOverwrite ==
    LET slot == frame.id % 4096
    IN  (RpcDone /\ reg_count[slot] >= 2) =>
            \A i \in 1 .. Len(calls) :
                /\ calls[i].ud = UserData(reg_done[slot])
                /\ calls[i].fn \in {SuccessFn(reg_done[slot]),
                                    ErrorFn(reg_done[slot])}

\* C9 witness: an error response was dispatched to a slot registered twice
C9_Witness ==
    /\ RpcDone /\ reg_count[frame.id % 4096] >= 2
    /\ Len(calls) = 1 /\ calls[1].kind = "on_error"

----------------------------------------------------------------------------
(***************************************************************************)
(* Properties of the rate limiter (checked under SpecRL).                  *)
(***************************************************************************)

\* C10: after construction and after every allow_request made at
\* non-decreasing times, 0 <= tokens <= 20; the bucket is constructed with
\* exactly 20 tokens; a denied query leaves the balance non-negative.
C10_TokensInRange ==
    /\ 0 <= rl.tokens
    /\ rl.tokens <= 20 * TokenUnit
    /\ n_allow = 0 => rl.tokens = 20 * TokenUnit
    /\ ~rl_ok => (rl.tokens >= 0 /\ rl.tokens < TokenUnit)

\* C10 witness: the bucket was drained and a query was denied with a
\* fraction of a token left
C10_Witness ==
    /\ n_allow > 20 /\ ~rl_ok
    /\ rl.tokens > 0 /\ rl.tokens < TokenUnit

\* C11: for every sequence of allow_request calls on one limiter at
\* non-decreasing times t0 <= ... <= tk, the number of calls that return
\* true is at most 20 + 5 * (tk - t0), with time in seconds.
C11_AdmittedAtMostBurstPlusRate ==
    n_allow > 0 =>
        n_ok * TokenUnit * MsPerSecond
            <= 20 * TokenUnit * MsPerSecond
               + 5 * TokenUnit * (rl.last_refill - t_first)

\* C11 witness: more than 20 calls were admitted and the bound is met with
\* equality
C11_Witness ==
    /\ n_ok > 20
    /\ rl.last_refill > t_first
    /\ n_ok * TokenUnit * MsPerSecond
          = 20 * TokenUnit * MsPerSecond
            + 5 * TokenUnit * (rl.last_refill - t_first)

----------------------------------------------------------------------------
(***************************************************************************)
(* Properties of send_rpc and subscribe (checked under SpecGate).          *)
(***************************************************************************)

\* C12: starting from a full bucket of 20 tokens, of 25 consecutive
\* send_rpc calls issued within 100 ms the first 20 return true and the
\* last 5 return false.
C12_BurstOf25 ==
    ( /\ f_pc = "idle" /\ n_sub = 0
      /\ 1 <= n_allow /\ n_allow <= 25
      /\ rl.last_refill - t_first <= 100 )
    => f_ret = IF n_allow <= 20 THEN "true" ELSE "false"

\* C12 witness: the 25th call of such a burst, 100 ms after the first, has
\* returned false
C12_Witness ==
    /\ f_pc = "idle" /\ n_sub = 0 /\ n_allow = 25
    /\ rl.last_refill - t_first = 100
    /\ n_ok = 20 /\ f_ret = "false"

\* the step in which a send_rpc or subscribe call starts and passes the gate
CallStarts == f_pc = "idle" /\ n_calls' = n_calls + 1

\* C13: when the rate gate denies, send_rpc returns false and subscribe
\* returns, nothing is pushed to the outbound queue and no dispatcher slot
\* changes; when the gate admits, send_rpc pushes a frame formatted with the
\* caller's id and method.
C13_DeniedDropsAdmittedPushes ==
    [][ /\ (CallStarts /\ ~rl_ok') =>
              /\ f_pc' = "idle"
              /\ f_call'.kind = "send_rpc" => f_ret' = "false"
              /\ UNCHANGED <<buffer, head, tail, pushed, p_pc, p_v>>
              /\ UNCHANGED <<rpc_handler, sub_handler>>
        /\ (CallStarts /\ rl_ok' /\ f_call'.kind = "send_rpc") =>
              /\ p_pc'[App] = "check"
              /\ Find(p_v'[App], << "{\"jsonrpc\":\"2.0\",\"id\":",
                                    ToString(f_call'.id) >>) = 1
              /\ Find(p_v'[App], << ",\"method\":", QUOTE >>
                                 \o f_call'.method \o << QUOTE >>) = 3
              /\ UNCHANGED <<rpc_handler, sub_handler>>
        /\ (f_pc = "send_rpc_push" /\ p_pc[App] = "store_head"
               /\ p_pc'[App] = "notify") =>
              /\ Len(pushed') = Len(pushed) + 1
              /\ pushed'[Len(pushed')] = p_v[App]
      ]_vars

\* C13 witness: a send_rpc was denied after an earlier one had been pushed
C13_Witness ==
    /\ f_pc = "idle" /\ f_call.kind = "send_rpc" /\ f_ret = "false"
    /\ Len(pushed) > 0 /\ ~rl_ok

\* C14: when the outbound queue is full and the rate gate admits, send_rpc
\* does not report success for the frame that was not enqueued.
C14_DropObserved ==
    ~ ( /\ f_pc = "idle" /\ f_call.kind = "send_rpc"
        /\ rl_ok /\ push_ret[App] = "false"
        /\ f_ret = "true" )

----------------------------------------------------------------------------
(***************************************************************************)
(* Properties of authentication (checked under SpecAuth).                  *)
(***************************************************************************)

\* C15, as claimed: the access token is empty from construction on and is
\* changed only by the dispatch of a success response with id 9001 that
\* carries a non-empty access_token T, which makes it T; no other frame
\* changes it.
C15_OnlyAuthIdSetsToken ==
    /\ access_token = <<>>
    /\ [][ access_token' # access_token =>
              /\ frame.id_kind = "uint" /\ frame.id = 9001
              /\ frame.error # "value"
              /\ access_token' = AccessTokenOf(frame.result)
         ]_vars

\* C15, amended: the access token is empty from construction on; it is
\* changed only when the dispatcher calls the success continuation for a
\* non-error response whose id falls into the slot of id 9001 (id & 4095 =
\* 9001 & 4095) and whose result carries a non-empty access_token T, and
\* then it becomes T; in particular a success response with id 9001 and
\* token T, dispatched while authenticate's registration holds the slot,
\* makes the token T.
C15_TokenSetByAuthSlotSuccess ==
    /\ access_token = <<>>
    /\ [][ /\ access_token' # access_token =>
                /\ d_pc = "rpc_call"
                /\ frame.id_kind = "uint" /\ frame.id % 4096 = 9001 % 4096
                /\ frame.error # "value"
                /\ frame.result \in TokenResults
                /\ access_token' = << frame.result >>
           /\ ( /\ d_pc = "rpc_call" /\ d_pc' # "rpc_call"
                /\ frame.id = 9001 /\ frame.error # "value"
                /\ frame.result \in TokenResults
                /\ rpc_handler[9001 % 4096].on_success = AuthSuccessFn )
                => access_token' = << frame.result >>
         ]_vars

\* C15 witness: the auth response has been dispatched and the token is set
C15_Witness ==
    /\ d_pc = "done" /\ frame.id = 9001 /\ frame.result = "tok-xyz"
    /\ access_token = << "tok-xyz" >>

----------------------------------------------------------------------------
(***************************************************************************)
(* Properties of the Sender (checked under SpecSend).                      *)
(***************************************************************************)

\* the response to the auth request was an RPC error and has been dispatched
AuthErrorDone ==
    d_pc = "done" /\ frame.ok /\ frame.id = 9001 /\ frame.error = "value"

\* the frame names a method of the private/ namespace
HasPrivateMethod(msg) == Find(msg, << ",\"method\":", QUOTE, "private/" >>) # 0

\* the frame carries an access_token field
HasToken(msg) == Find(msg, << ",\"access_token\":" >>) # 0

\* C16: if the response to the auth request (id 9001) is an RPC error, the
\* access token stays empty, and every private/ frame the Sender writes
\* afterwards goes to the transport without an access_token, unchanged from
\* what was enqueued.
C16_AuthErrorNoToken ==
    [][ AuthErrorDone =>
           /\ access_token = <<>> /\ access_token' = <<>>
           /\ Len(wire') > Len(wire) =>
                 /\ wire'[Len(wire')] = popped[Len(wire')]
                 /\ ~HasToken(wire'[Len(wire')])
      ]_vars

\* C16 witness: after the auth error a private/ frame has been written
C16_Witness ==
    /\ AuthErrorDone
    /\ Len(wire) >= 2
    /\ HasPrivateMethod(wire[Len(wire)])
    /\ wire[Len(wire)] = popped[Len(wire)]

\* C17: the Sender splices the access token into a frame exactly when the
\* frame's method is in the private/ namespace and the token is non-empty;
\* a frame whose method is not in the private/ namespace is written exactly
\* as it was enqueued, whatever its params contain.
C17_SpliceOnlyPrivateMethods ==
    \A i \in 1 .. Len(wire) :
        IF HasPrivateMethod(popped[i])
          THEN HasToken(wire[i]) \/ wire[i] = popped[i]
          ELSE wire[i] = popped[i]

\* C18: the frames the Sender writes appear in the order in which send_rpc
\* and subscribe enqueued them: the i-th frame written is the i-th frame
\* enqueued, with or without the token spliced in.
C18_WireInEnqueueOrder ==
    /\ Len(wire) <= Len(pushed)
    /\ \A i \in 1 .. Len(wire) :
          \/ wire[i] = pushed[i]
          \/ /\ HasToken(wire[i])
             /\ \E t \in TokenResults :
                   wire[i] = Insert(pushed[i], Len(pushed[i]),
                                    << ",\"access_token\":", QUOTE, t, QUOTE >>)

\* C18 witness: two different frames have been written
C18_Witness ==
    /\ Len(wire) >= 2
    /\ wire[1] # wire[2]
    /\ wire[2] = pushed[2]

----------------------------------------------------------------------------
(***************************************************************************)
(* Properties of the client's threads (checked under SpecClient).          *)
(***************************************************************************)

\* C19: frames are dispatched in the order in which the Receiver read them.
\* The Receiver numbers the frames 1, 2, ... as it reads them; the numbers
\* handed to Dispatcher::dispatch are frames that were read, each at most
\* once, in increasing order.
C19_DispatchedInReadOrder ==
    /\ \A i \in 1 .. Len(dispatched) : dispatched[i] \in 1 .. n_frames
    /\ \A i, j \in 1 .. Len(dispatched) :
          i < j => dispatched[i] < dispatched[j]

\* C19 witness: two frames have been read and both have been dispatched
C19_Witness ==
    /\ Len(dispatched) >= 2
    /\ dispatched[1] = 1 /\ dispatched[2] = 2

\* C20: from every state after connect(), a call of close() eventually
\* returns with the Receiver, the Sender and the dispatcher thread
\* terminated and joined, under fair scheduling and a transport whose close
\* unblocks a pending read.
C20_CloseReturns ==
    (a_pc = "close_push") ~>
        (a_pc = "closed" /\ r_pc = "exited" /\ s_pc = "exited"
                         /\ dl_pc = "exited")

\* C21: close() is idempotent. Every call of close() made after a first
\* completed call finds all worker threads terminated, throws nothing,
\* leaves them terminated and returns.
C21_RecloseReturns ==
    /\ [](a_pc \in RecloseSteps \cup {"closed", "threw"} =>
             /\ a_pc # "threw"
             /\ r_pc = "exited" /\ s_pc = "exited" /\ dl_pc = "exited"
             /\ ~connected /\ ~r_running /\ ~s_running)
    /\ (a_pc = "reclose_push") ~> (a_pc = "closed")

\* C21 witness: a second call of close() has pushed its sentinel and returned
C21_Witness ==
    /\ a_pc = "closed"
    /\ n_push >= 2
    /\ push_ret[App] \in {"true", "false"}
    /\ Cardinality({ i \in 1 .. Len(pushed) : pushed[i] = 0 }) >= 2

----------------------------------------------------------------------------
(***************************************************************************)
(* Properties of fetch_n_ohlcv (checked under SpecFetch).                  *)
(***************************************************************************)

\* the sequence is in ascending order of ts_ms
IsSortedByTs(sq) == \A i \in 1 .. Len(sq) - 1 : sq[i] <= sq[i + 1]

\* C22: fetch_n_ohlcv(N) returns a vector sorted by ts_ms ascending whose
\* length is exactly N, unless the server supplied fewer than N candles in
\* total over the requests of the call, in which case it returns the
\* candles received; the returned length never exceeds N.
C22_ReturnsNSorted ==
    h_pc = "returned" =>
        /\ IsSortedByTs(h_ret)
        /\ Len(h_ret) <= h_n
        /\ \/ Len(h_ret) = h_n
           \/ Len(h_recv) < h_n /\ h_ret = SortByTs(h_recv)

\* C22 witness: a call for two candles has returned them in order
C22_Witness ==
    /\ h_pc = "returned" /\ h_n = 2
    /\ Len(h_ret) = 2 /\ h_ret[1] < h_ret[2]

\* C23: fetch_n_ohlcv with N = 0 returns an empty vector without
\* registering any RPC slot, without calling send_rpc and without consuming
\* a token of the rate limiter.
C23_ZeroSendsNothing ==
    (h_pc # "idle" /\ h_n = 0) =>
        /\ h_pc \in {"loop", "sort", "trim", "returned"}
        /\ rpc_handler[RpcSlot(RPC_ID)] = NullHandler
        /\ n_calls = 0 /\ n_allow = 0 /\ n_push = 0
        /\ rl \in {NewRateLimiter(0), DrainedRateLimiter(0)}
        /\ out = <<>>
        /\ h_pc = "returned" => h_ret = <<>>

\* C23 witness: a call with N = 0 has returned
C23_Witness ==
    h_pc = "returned" /\ h_n = 0 /\ h_ret = <<>> /\ n_allow = 0

\* the request of a one-candle window ending at the time of the call
OneCandleRequest ==
    SendRpcMsg(RPC_ID, ChartData, ChartParams(h_res, NowMs, NowMs))

----------------------------------------------------------------------------
(***************************************************************************)
(* Further properties of the Dispatcher (checked under SpecDisp).          *)
(***************************************************************************)

\* C25: a dispatched frame that carries an id but neither a result nor an
\* error field invokes no handler, even when the slot rpc_table[id & 4095]
\* has on_success and on_error set.
C25_NoResultNoErrorNoHandler ==
    (RpcDone /\ frame.error = "absent" /\ frame.result = "absent") =>
        calls = <<>>

\* C26, as claimed: a subscription notification whose channel was never
\* passed to register_subscription invokes no handler, for every set of
\* other channels that have been registered.
C26_UnregisteredChannelIgnored ==
    (SubDone /\ frame.channel \notin sub_regd) => calls = <<>>

\* C26, amended: a subscription notification invokes no handler when no
\* channel that was passed to register_subscription hashes to the slot of
\* its channel; a channel that was never registered is ignored unless a
\* registered channel shares its slot.
C26_UnregisteredSlotIgnored ==
    (SubDone /\ \A c \in sub_regd : SubIdx(c) # SubIdx(frame.channel)) =>
        /\ calls = <<>>
        /\ sub_handler[SubIdx(frame.channel)] = 0

\* C26 witness: with channel "a" registered, a notification on "aid", which
\* shares no slot with it, was dispatched and ignored
C26_Witness ==
    /\ SubDone /\ frame.channel = <<97, 105, 100>>
    /\ sub_regd = { <<97>> }
    /\ calls = <<>>

\* C27: when register_rpc runs on an application thread while the
\* dispatcher thread dispatches a frame for the same slot, the worst outcome
\* is a missed dispatch: the dispatcher never invokes a continuation taken
\* from one registration together with the user_data of another
\* registration (no torn slot is observed). The k-th registration passes
\* the continuations SuccessFn(k), ErrorFn(k) and the user data UserData(k).
C27_NoTornSlot ==
    \A i \in 1 .. Len(calls) :
        calls[i].kind \in {"on_success", "on_error"} =>
            \E k \in 1 .. n_reg :
                /\ calls[i].ud = UserData(k)
                /\ calls[i].fn \in {SuccessFn(k), ErrorFn(k)}

----------------------------------------------------------------------------
(***************************************************************************)
(* Accesses to DeribitClient::access_token (checked under SpecSend).       *)
(***************************************************************************)

\* the dispatcher thread is about to run the auth success handler, which
\* assigns access_token ("self->access_token = pm.access_token")
TokenWritePending ==
    /\ d_pc = "rpc_call"
    /\ RpcContinuation(rpc_handler[RpcSlot(pm.id)], pm.is_error) = AuthSuccessFn
    /\ pm.access_token # <<>>

\* the Sender thread holds a private frame and is about to read the token
\* through get_access_token() ("token.empty()", then the insert)
TokenReadPending ==
    /\ s_pc = "send"
    /\ Find(c_v, << QUOTE, PRIVATE_NS >>) # 0

\* C28: the access token is never read by the Sender thread (through
\* get_access_token while injecting into a private frame) at the same time
\* as the dispatcher thread writes it in the auth success handler. The
\* client has no lock and no atomic for the token, so the two accesses are
\* concurrent whenever both are the next step of their threads.
C28_TokenAccessExclusive == ~(TokenWritePending /\ TokenReadPending)

----------------------------------------------------------------------------
(***************************************************************************)
(* The Receiver against a slow dispatcher: the transport delivers more     *)
(* frames than the inbound queue holds (SpecInbound). Only the Receiver    *)
(* pushes and only the dispatcher thread pops.                             *)
(***************************************************************************)

\* frames the transport delivers in the burst: more than the N - 1 the ring
\* can hold
BurstFrames == N + MaxFrames

\* Receiver::run, ws.read() returns the next frame of the burst and
\* queue.push(std::move(msg)) starts
RecvReadBurst ==
    /\ r_pc = "read"
    /\ ~shutting_down
    /\ n_frames < BurstFrames
    /\ n_frames' = n_frames + 1
    /\ PushBegin(Receiver, n_frames + 1)
    /\ r_pc' = "push"
    /\ UNCHANGED <<connected, r_running, s_running, shutting_down, a_pc,
                   s_pc, dl_pc, dispatched>>
    /\ UNCHANGED <<dvars, rvars, svars, hvars>>

InitInbound == QInit /\ CInit /\ DInit /\ RInit /\ SInit /\ HInit

NextInbound ==
    \/ Connect
    \/ RecvLoopCheck
    \/ RecvReadBurst
    \/ RecvPushStep
    \/ DlWaitAndPop
    \/ DlPopStep
    \/ DlGot

SpecInbound == InitInbound /\ [][NextInbound]_vars

\* the frames in the ring, oldest first
QueueContent == [i \in 1 .. Stored |-> buffer[Wrap(tail + i - 1)]]

\* the Receiver's push leaves its full check in this step
RecvChecked == p_pc[Receiver] = "check" /\ p_pc'[Receiver] # "check"

\* C29: when the inbound queue is full (N - 1 frames stored) the Receiver's
\* push returns false in one step, the frame just read is discarded, and the
\* Receiver is back at the head of its loop without blocking; the ring, head,
\* tail and the frames already queued are unchanged by the refused push. A
\* push that finds a free slot is accepted, so frames read once space is
\* available enter the queue; the queue always holds exactly the accepted
\* frames not yet popped, in arrival order, and the dispatcher receives the
\* accepted frames in that order.
C29_FullQueueDropsFrame ==
    /\ [][ (RecvChecked /\ Stored = N - 1) =>
              /\ push_ret'[Receiver] = "false"
              /\ p_pc'[Receiver] = "idle"
              /\ r_pc' = "loop"
              /\ buffer' = buffer /\ head' = head /\ tail' = tail
              /\ pushed' = pushed
              /\ QueueContent' = QueueContent ]_vars
    /\ [][ (RecvChecked /\ Stored < N - 1) =>
              /\ p_pc'[Receiver] = "store_buf"
              /\ push_ret'[Receiver] = "pending" ]_vars
    /\ [][ (push_ret[Receiver] = "pending" /\ push_ret'[Receiver] = "true") =>
              /\ pushed # <<>>
              /\ pushed[Len(pushed)] = p_v[Receiver]
              /\ r_pc' = "loop" ]_vars
    /\ [](QueueContent = SubSeq(pushed, Len(popped) + 1, Len(pushed)))
    /\ [](IsPrefix(dispatched, pushed))

\* a frame was discarded on the full queue and a frame read after it has
\* been dispatched
C29_Witness ==
    \E i \in 1 .. Len(dispatched) :
        \E k \in 1 .. dispatched[i] - 1 :
            /\ \A j \in 1 .. Len(pushed) : pushed[j] # k
            /\ k < p_v[Receiver]

----------------------------------------------------------------------------
(***************************************************************************)
(* The exit of dispatch_loop (checked under SpecClient).                   *)
(***************************************************************************)

\* the dispatcher thread acts on the message wait_and_pop returned
DlTested == dl_pc = "got" /\ dl_pc' # "got" /\ pop_ret # "undefined"

\* C30: the dispatch loop exits on the first popped message that is empty
\* or that it tests while connected is false, without dispatching it; after
\* the exit nothing is dispatched any more; and from the moment close() has
\* cleared connected no message is handed to Dispatcher::dispatch, so the
\* frames still in the inbound queue at that moment are never dispatched.
C30_LoopExitsWithoutDispatch ==
    /\ [][ (DlTested /\ (c_v = 0 \/ ~connected)) =>
              (dl_pc' = "exited" /\ dispatched' = dispatched) ]_vars
    /\ [][ (DlTested /\ c_v # 0 /\ connected) =>
              (dl_pc' = "wait" /\ dispatched' = Append(dispatched, c_v)) ]_vars
    /\ [][ dl_pc = "exited" =>
              (dl_pc' = "exited" /\ dispatched' = dispatched) ]_vars
    /\ [][ ~connected => dispatched' = dispatched ]_vars

\* the loop has exited after close() cleared the flag, and a frame the
\* Receiver had queued was never dispatched
C30_Witness ==
    /\ dl_pc = "exited"
    /\ ~connected
    /\ \E j \in 1 .. Len(popped) :
          /\ popped[j] # 0
          /\ \A i \in 1 .. Len(dispatched) : dispatched[i] # popped[j]

----------------------------------------------------------------------------
(***************************************************************************)
(* Further properties of fetch_n_ohlcv (checked under SpecFetch).          *)
(***************************************************************************)

\* the slot as fetch_n_ohlcv registers it
OhlcvHandler ==
    [on_success |-> OhlcvSuccessFn, on_error |-> OhlcvErrorFn,
     user_data |-> OhlcvContext]

\* the call has left its loop
FetchLeftLoop == h_pc \in {"sort", "trim", "returned"}

\* the dispatcher thread invokes the continuation it found in the slot
HandlerInvoked == d_pc = "rpc_call" /\ d_pc' # "rpc_call"

\* C31: fetch_n_ohlcv leaves the slot of RPC_ID (0xC0FFEE) registered when
\* it leaves its loop, on the 5-second timeout as on every other exit, so a
\* response with that id dispatched after the call has returned invokes
\* on_ohlcv_success / on_ohlcv_error with the &ctx of the returned call.
C31_SlotOutlivesCall ==
    /\ []((FetchLeftLoop /\ h_n > 0) =>
              rpc_handler[RpcSlot(RPC_ID)] = OhlcvHandler)
    /\ [][ (HandlerInvoked /\ h_pc = "returned") =>
              /\ calls'[Len(calls')].fn \in {OhlcvSuccessFn, OhlcvErrorFn}
              /\ calls'[Len(calls')].ud = OhlcvContext
              /\ h_uaf' ]_vars

\* C31 witness: the call timed out and returned, and the late response has
\* run the success handler on the context of that call
C31_Witness ==
    /\ h_pc = "returned"
    /\ h_uaf
    /\ calls # <<>>
    /\ calls[Len(calls)].fn = OhlcvSuccessFn
    /\ calls[Len(calls)].ud = OhlcvContext
    /\ now >= WaitTimeoutMs

\* the dispatcher thread is about to run on_ohlcv_success, which appends to
\* *ctx->out before it takes the mutex (lines 41-52, lock at line 56)
AppendPending ==
    /\ d_pc = "rpc_call"
    /\ RpcContinuation(rpc_handler[RpcSlot(pm.id)], pm.is_error)
          = OhlcvSuccessFn

\* the caller thread is about to read out.size(), sort or trim the vector,
\* none of which holds the mutex (lines 109, 111, 145-146, 153, 158-160)
CallerAccessPending ==
    h_pc \in {"loop", "register", "compare", "sort", "trim"}

\* C32: the collected-candles vector is never accessed by the dispatcher
\* thread (appending in the success handler) and by the caller thread
\* (reading its size, sorting, trimming) at the same time, in every
\* interleaving including a response that arrives as the 5-second wait
\* times out.
C32_VectorAccessExclusive == ~(AppendPending /\ CallerAccessPending)

\* C33: fetch_n_ohlcv always returns, for every N and every server
\* behaviour: a call that has started eventually returns.
C33_AlwaysReturns == (h_pc # "idle") ~> (h_pc = "returned")

\* the same for the server behaviours whose responses parse: a call that
\* has started returns unless the process was terminated in the handler
C33_ReturnsUnlessTerminated ==
    (h_pc # "idle") ~> (h_pc \in {"returned", "terminated"})

\* candle c is one of the periods of the window of request q
InWindow(c, q) ==
    /\ q.start_ts <= c /\ c <= q.end_ts
    /\ (q.end_ts - c) % ResMs(q.res) = 0

\* every candle the call has received lies inside the window of one of
\* its requests
AllInWindow ==
    \A j \in 1 .. Len(h_recv) :
        \E i \in 1 .. Len(h_reqs) : InWindow(h_recv[j], h_reqs[i])

\* each request's window ends 1 ms before the window of the request before
\* it starts, and no window is empty
WindowsChained ==
    /\ \A i \in 1 .. Len(h_reqs) : h_reqs[i].start_ts <= h_reqs[i].end_ts
    /\ \A i \in 1 .. Len(h_reqs) - 1 :
          h_reqs[i + 1].end_ts = h_reqs[i].start_ts - 1

\* C34: the time windows of the requests issued by one fetch_n_ohlcv call
\* are pairwise disjoint and strictly older from request to request (each
\* new end_timestamp is the previous start_timestamp minus 1 ms), so when
\* the server returns only candles inside the requested window the returned
\* vector has strictly increasing ts_ms with no duplicate.
C34_DisjointWindowsNoDuplicate ==
    /\ WindowsChained
    /\ (h_pc = "returned" /\ AllInWindow) =>
          \A i \in 1 .. Len(h_ret) - 1 : h_ret[i] < h_ret[i + 1]

\* the period of a resolution in milliseconds, as the specification states
\* it: minutes times 60000, and 86,400,000 for "1D"
PeriodMs(res) == IF res = "1D" THEN 86400000 ELSE 60000

\* the request the call has just passed to send_rpc
NewRequest == h_reqs'[Len(h_reqs')]

\* C35: every request issued by fetch_n_ohlcv has end_timestamp -
\* start_timestamp = (batch - 1) * period_ms, where batch = min(N -
\* collected, CHUNK_SIZE) at the time of the request and period_ms is the
\* resolution in minutes times 60000 ("1D" counted as 1440 minutes, while
\* the resolution string sent stays "1D"); so a call that returns N candles
\* has issued at least ceil(N / CHUNK_SIZE) requests when the server
\* returned only candles of the requested windows.
C35_WindowWidth ==
    /\ [][ Len(h_reqs') > Len(h_reqs) =>
              /\ NewRequest.end_ts - NewRequest.start_ts
                    = (Min(h_n - Len(out), ChunkSize) - 1) * PeriodMs(h_res)
              /\ NewRequest.res = h_res
              /\ p_v'[App] = SendRpcMsg(RPC_ID, ChartData,
                    << "{", "\"instrument_name\":", QUOTE, Instrument, QUOTE,
                       ",\"resolution\":", QUOTE, h_res, QUOTE,
                       ",\"start_timestamp\":",
                       ToString(NewRequest.start_ts),
                       ",\"end_timestamp\":", ToString(NewRequest.end_ts),
                       CLOSE_BRACE >>) ]_vars
    /\ []((h_pc = "returned" /\ Len(h_ret) = h_n /\ AllInWindow) =>
             Len(h_reqs) >= (h_n + ChunkSize - 1) \div ChunkSize)

\* C35 witness: a call for three daily candles has returned them after two
\* requests, the first with a window of two periods
C35_Witness ==
    /\ h_pc = "returned" /\ h_res = "1D" /\ h_n = 3
    /\ Len(h_ret) = 3
    /\ Len(h_reqs) = 2
    /\ h_reqs[1].end_ts - h_reqs[1].start_ts = 86400000
    /\ h_reqs[2].end_ts = h_reqs[2].start_ts

\* the call is between a send_rpc that the gate denied and its next
\* send_rpc
Retrying == ~rl_ok /\ h_pc \in {"sleep", "loop", "register"}

\* C36: when send_rpc is denied by the rate gate inside fetch_n_ohlcv, the
\* fetcher retries after 200 ms with the same window: the denied attempt
\* enqueues no request and records none, and from the denial up to the next
\* send_rpc the collected candles and current_end_ts are unchanged, the
\* sleep lasts RetrySleepMs, and the window computed for the retry has the
\* same start (the same batch size) as the denied one.
C36_DeniedRetrySameWindow ==
    /\ [][ (h_pc = "send" /\ h_pc' # "send" /\ ~rl_ok') =>
              /\ h_pc' = "sleep"
              /\ f_ret' = "false"
              /\ n_push' = n_push /\ pushed' = pushed
              /\ buffer' = buffer /\ head' = head
              /\ h_reqs' = h_reqs
              /\ out' = out
              /\ current_end_ts' = current_end_ts
              /\ current_start_ts' = current_start_ts ]_vars
    /\ [][ Retrying =>
              /\ out' = out
              /\ current_end_ts' = current_end_ts
              /\ current_start_ts' = current_start_ts
              /\ n_push' = n_push /\ pushed' = pushed
              /\ h_pc' \in {"sleep", "loop", "register", "send"} ]_vars
    /\ [][ (h_pc = "sleep" /\ h_pc' # "sleep") =>
              (h_pc' = "loop" /\ now' = now + 200) ]_vars

\* C36 witness: the first attempt was denied, and after the sleep the same
\* window, ending at the time of the call, was requested and enqueued
C36_Witness ==
    /\ h_pc = "wait"
    /\ now = 200
    /\ n_allow = 2 /\ n_ok = 1
    /\ n_push = 1
    /\ Len(h_reqs) = 1
    /\ h_reqs[1].end_ts = NowMs

\* the last response dispatched was an RPC error handed to on_ohlcv_error
ErrorAnswered ==
    /\ calls # <<>>
    /\ calls[Len(calls)].kind = "on_error"
    /\ calls[Len(calls)].fn = OhlcvErrorFn

NewestSorted(sq, n) ==
    SubSeq(SortByTs(sq), Len(sq) - n + 1, Len(sq))

\* C38: when more than N candles were collected, fetch_n_ohlcv returns
\* exactly the N candles with the largest ts_ms of those collected, in
\* ascending order: only the oldest excess is dropped.
C38_TrimKeepsNewest ==
    (h_pc = "returned" /\ Len(h_recv) > h_n) =>
        h_ret = NewestSorted(h_recv, h_n)

----------------------------------------------------------------------------
(***************************************************************************)
(* The two token buckets on the send path (checked under SpecSend, where   *)
(* the clock stands still and no bucket is refilled).                      *)
(***************************************************************************)

\* whole tokens a limiter that started full has given out
Debited(l) == (MAX_TOKENS * TokenUnit - l.tokens) \div TokenUnit

\* C39: the Sender debits one token from its own bucket on every loop
\* iteration that passes its gate, before it knows whether the outbound
\* queue holds a frame, and an iteration that finds the queue empty gives
\* nothing back: a running Sender with an empty outbound queue drains its
\* bucket below one token. Every frame written to the transport has been
\* charged by the gate of the facade (before its push) and by the gate of
\* the Sender (before its pop).
C39_SenderDebitsEveryIteration ==
    /\ [][ (s_pc = "gate" /\ s_pc' = "pop") =>
              /\ Refill(s_rl.tokens, now - s_rl.last_refill) >= TokenUnit
              /\ s_rl'.tokens
                    = Refill(s_rl.tokens, now - s_rl.last_refill) - TokenUnit
              /\ wire' = wire ]_vars
    /\ [][ (s_pc = "gate" /\ s_pc' = "gate" /\ s_rl' # s_rl) =>
              Refill(s_rl.tokens, now - s_rl.last_refill) < TokenUnit ]_vars
    /\ [][ (s_pc = "pop" /\ s_pc' = "loop") =>
              (s_rl' = s_rl /\ wire' = wire /\ pop_ret' = "nullopt") ]_vars
    /\ [][ wire' # wire => (s_pc = "send" /\ s_rl' = s_rl /\ rl' = rl) ]_vars
    /\ [](now = 0 =>
            /\ Len(wire) + (IF s_pc \in {"pop", "send"} THEN 1 ELSE 0)
                  <= Debited(s_rl)
            /\ Len(wire) <= Len(pushed)
            /\ n_push <= Debited(rl))

\* C39 witness: nothing was ever enqueued or written, and the Sender has
\* emptied its bucket and waits at its gate
C39_Witness ==
    /\ s_pc = "gate"
    /\ n_push = 0 /\ wire = <<>>
    /\ s_rl.tokens < TokenUnit
    /\ rl.tokens = MAX_TOKENS * TokenUnit

----------------------------------------------------------------------------
(***************************************************************************)
(* Slot aliasing in the dispatcher (checked under SpecAuth, where the only *)
(* registration is authenticate's, under AUTH_ID).                         *)
(***************************************************************************)

\* authenticate has registered its handlers under AUTH_ID, and the frame
\* whose dispatch has returned carries another id that maps to the same slot
AliasDispatched ==
    /\ RpcDone
    /\ a_pc # "constructed"
    /\ frame.id # AUTH_ID
    /\ frame.id % 4096 = AUTH_ID % 4096

\* C40: the dispatcher does not store or compare the registered id. A slot
\* holds two continuations and the user data and nothing else; a frame with
\* id u is delivered to the continuations in slot u & 4095, so a frame whose
\* id differs from the registered id u' and has u & 4095 = u' & 4095 invokes
\* the continuation registered under u' (on_error for an error response,
\* on_success otherwise) with that registration's user data; and no step of
\* dispatch changes a slot, so the slot stays active and every later frame
\* that maps to it invokes the same handler again.
C40_SlotSharedByAliasedIds ==
    /\ [](\A sl \in DOMAIN rpc_handler :
             DOMAIN rpc_handler[sl] = {"on_success", "on_error", "user_data"})
    /\ [](AliasDispatched =>
             /\ Len(calls) = 1
             /\ calls[1].fn = IF frame.error = "value" THEN AuthErrorFn
                              ELSE AuthSuccessFn
             /\ calls[1].ud = AuthUserData)
    /\ [][ d_pc' # d_pc => rpc_handler' = rpc_handler ]_vars
    /\ [][ (d_pc = "rpc_call" /\ d_pc' # "rpc_call"
            /\ frame.id % 4096 = AUTH_ID % 4096 /\ a_pc # "constructed") =>
              calls'[Len(calls')].ud = AuthUserData ]_vars

\* C40 witness: the response with id AUTH_ID + 4096 has invoked the success
\* continuation that authenticate registered under AUTH_ID, and the token of
\* that response is now the client's
C40_Witness ==
    /\ AliasDispatched
    /\ frame.id = AUTH_ID + MAX_INFLIGHT
    /\ Len(calls) = 1
    /\ calls[1].fn = AuthSuccessFn
    /\ access_token = << "tok-abc" >>

====
